---------------------------- MODULE Spec2Model ----------------------------
(***************************************************************************)
(* Classic Mafia Draft: the server's session engine (socket handlers,     *)
(* broadcasters, game core) as a state machine.                            *)
(*                                                                         *)
(* One action per socket.io handler of server/socket/handlers.js; every   *)
(* action is the whole handler, its broadcasts included.  The messages a   *)
(* handler emits are kept in `emitted`; a handler that returns before it    *)
(* changes or emits anything leaves every variable as it is.               *)
(*                                                                         *)
(* Encodings:                                                              *)
(*   - JS arrays and objects keyed by numbers are functions (slots is a    *)
(*     function on 0..9, results a function on a subset of 1..10);         *)
(*   - null / undefined ids are the string Null;                           *)
(*   - a JS number n + 0.5 is coded as HalfBase + n, integers as           *)
(*     themselves (PICK_CARD takes any JSON number);                       *)
(*   - Math.random() returns k / RandomLevels for some k < RandomLevels.   *)
(***************************************************************************)
EXTENDS Integers, Sequences, FiniteSets, TLC

\* ------------------------------------------------------------------ bounds
\* Math.random() is one of 0/RandomLevels .. (RandomLevels-1)/RandomLevels.
RandomLevels == 2
\* The draws of a shuffle that vary under Spec (the later ones are 0).
ShuffleDepth == 1

\* --------------------------------------------------------------- universes
SocketIds == {"s1", "s2", "s3"}
\* The further connections of the specifications about the connection limit.
MoreSocketIds == {"s4", "s5", "s6", "s7"}
SocketOrder == <<"s1", "s2", "s3", "s4", "s5", "s6", "s7">>
\* socket.handshake.address: s1 connects on the server's machine, the others
\* from one address of the network.
Loopback == "127.0.0.1"
Remote == "203.0.113.7"
IpOf(s) == IF s = "s1" THEN Loopback ELSE Remote
DeviceIds == {"dA", "dJ", "dP"}
RoomIds == {"A"}
Names == {"Ann"}
Null == "null"
GLOBAL == "GLOBAL"
ClientRoles == {"UNASSIGNED", "PLAYER", "JUDGE", "ADMIN", "STREAM", "PENDING_STREAM"}
CardRoles == {"Citizen", "Sheriff", "Mafia", "Don"}
Undefined == "undefined"
\* The code of n + 0.5 is HalfBase + n.
HalfBase == 100

\* The placeholder broadcastState puts in place of the slot mapping.  It is
\* coded as a one-entry function so that it compares with slot mappings.
HIDDEN == (-1 :> "{HIDDEN_FOR_TOURNAMENT_INTEGRITY}")

EmptyMap == [x \in {} |-> Null]

\* ------------------------------------------------------------ core/game.js
INITIAL_DECK ==
  [i \in 0..9 |-> IF i <= 5 THEN "Citizen"
                  ELSE IF i = 6 THEN "Sheriff"
                  ELSE IF i = 9 THEN "Don" ELSE "Mafia"]

\* Twice the value of a coded number (so that halves compare as integers).
TwiceValue(x) == IF x >= HalfBase THEN 2 * (x - HalfBase) + 1 ELSE 2 * x

\* validatePayload(payload, {type: 'number', min, max}): any number in range.
validateNumber(payload, min, max) ==
  TwiceValue(payload) >= 2 * min /\ TwiceValue(payload) <= 2 * max

getInitialGameState ==
  [status |-> "PENDING",
   slots |-> EmptyMap,
   revealedSlots |-> <<>>,
   currentTurn |-> 1,
   results |-> EmptyMap,
   isTrayUnlocked |-> FALSE,
   isCardRevealed |-> FALSE,
   isDebugMode |-> FALSE,
   areRolesLocked |-> FALSE,
   draftStartTime |-> Null,
   settings |-> [singleMode |-> FALSE],
   clientCounts |-> [PLAYER |-> 0, JUDGE |-> 0, STREAM |-> 0, ADMIN |-> 0,
                     UNASSIGNED |-> 0, PENDING_STREAM |-> 0]]

\* Math.floor(Math.random() * n), Math.random() being k / RandomLevels.
RandomIndex(k, n) == (k * n) \div RandomLevels

\* A swap that forgets its second assignment.
SwapOneWay(array, i, j) == [array EXCEPT ![i] = array[j]]

Swap(array, i, j) == [array EXCEPT ![i] = array[j], ![j] = array[i]]

\* shuffle(array): Fisher-Yates from the top; rnd[j] is the j-th draw.
RECURSIVE shuffleFrom(_, _, _, _)
shuffleFrom(array, currentIndex, rnd, j) ==
  IF currentIndex = 0 THEN array
  ELSE LET randomIndex == RandomIndex(rnd[j], currentIndex)
           ci == currentIndex - 1
       IN shuffleFrom(Swap(array, ci, randomIndex), ci, rnd, j + 1)

shuffle(array, rnd) == shuffleFrom(array, Cardinality(DOMAIN array), rnd, 1)

\* The draws of one shuffle of ten cards: the first `depth` draws vary, the
\* others are 0.
Draws(depth) ==
  {[j \in 1..10 |-> IF j <= depth THEN f[j] ELSE 0] :
     f \in [1..depth -> 0..(RandomLevels - 1)]}

\* -------------------------------------------------------------------- state
VARIABLES
  rooms,          \* state.rooms: roomId -> gameState
  sessions,       \* state.sessions: deviceId -> session
  clients,        \* state.clients: socket id -> client record
  globalDebugMode,\* state.globalDebugMode
  connected,      \* the sockets of io.sockets.sockets
  socketDeviceId, \* socket.deviceId of each socket
  joined,         \* socket.io rooms each socket has joined
  emitted,        \* the messages of the last event that changed or emitted anything
  lastEvent,      \* that event: [type, socket, arg]
  clientKeys,     \* state.clientKeys: socket id -> the key of its KEY_EXCHANGE
  adminCredentials, \* state.adminCredentials: {salt, hash}, or NoCredentials
  ipConnectionCounts, \* state.ipConnectionCounts: address -> admitted connections
  loginAttempts,  \* state.loginAttempts: address -> {count, lockoutUntil}
  loginChallenges,\* state.loginChallenges: socket id -> nonce
  disk,           \* the storage directory: the shard_i.dat and shard_i.tmp files
  now,            \* Date.now(), in minutes
  saving,         \* the file operation of saveState before which the process ended
                  \* (0: the process is running)
  rsEngine,       \* whether the Reed-Solomon engine was loaded at start
  messageCount,   \* the messageCount of each connection's rate limiter
  lastPacket      \* the last packet received: [socket, event, verdict]

\* What the handlers read and write.
access == <<ipConnectionCounts, loginAttempts, loginChallenges>>

state == <<rooms, sessions, clients, globalDebugMode, connected,
           socketDeviceId, joined, emitted, lastEvent, clientKeys, adminCredentials,
           access, disk>>

\* What the packet middleware (socket.use) and the decryption router keep.
wire == <<messageCount, lastPacket>>

\* The clock, and a saveState that a crash can interrupt.
run == <<now, saving, rsEngine>>

vars == <<state, wire, run>>

\* ------------------------------------------------------- message emission
\* A message: its recipient, its event and its argument.  The argument is
\* kept under the event's name, the arguments of different events being of
\* different kinds.  The emit interceptor wraps the event in an
\* ENCRYPTED_MESSAGE when the recipient has a key, and sends it as it is
\* otherwise.
Msg(to, event, payload) ==
  [to |-> to, event |-> event, args |-> (event :> payload),
   encrypted |-> to \in DOMAIN clientKeys]

\* The reply a handler gives through the packet's acknowledgement callback:
\* it does not pass through socket.emit.
Ack(to, payload) ==
  <<[to |-> to, event |-> "ACK", args |-> ("ACK" :> payload), encrypted |-> FALSE]>>

PayloadOf(m) == m.args[m.event]

\* The sockets of a set, in socket order.
InOrder(S) == SelectSeq(SocketOrder, LAMBDA s : s \in S)

\* The same event to each socket of S.
EmitAll(S, event, payload) ==
  [i \in 1..Len(InOrder(S)) |-> Msg(InOrder(S)[i], event, payload)]

\* socket.emit(event, payload)
SocketEmit(s, conn, event, payload) ==
  EmitAll({s} \cap conn, event, payload)

\* io.to(target): the members of the socket.io room of that name, or the
\* socket of that id (every socket is in the room named by its own id).
IoToTargets(target, conn, jn) ==
  IF target \in SocketIds \cup MoreSocketIds THEN {target} \cap conn
  ELSE {s \in conn : target \in jn[s]}

\* io.to(target).emit(event, payload)
IoToEmit(target, conn, jn, event, payload) ==
  EmitAll(IoToTargets(target, conn, jn), event, payload)

\* io.emit(event, payload)
IoEmit(conn, event, payload) == EmitAll(conn, event, payload)

\* ------------------------------------------------- socket/broadcasters.js
\* The slot mapping as broadcastState and broadcastToAdmins send it.
SanitizedSlots(gs, dbg) == IF ~dbg THEN HIDDEN ELSE gs.slots

AssignedSeatOf(sess, d) ==
  IF d \in DOMAIN sess THEN sess[d].assignedSeat ELSE 0

\* broadcastToAdmins(): REGISTRY_UPDATE and ROOMS_UPDATE to every ADMIN.
broadcastToAdmins(rms, sess, cls, dbg, conn, jn) ==
  LET adminSockets == InOrder({s \in DOMAIN cls : cls[s].role = "ADMIN"})
      sanitizedRooms ==
        [r \in DOMAIN rms |->
           [gameState |-> [rms[r] EXCEPT !.slots = SanitizedSlots(rms[r], dbg)]]]
      fullRegistry ==
        [clients |->
           [s \in DOMAIN cls |->
              [client |-> cls[s],
               assignedSeat |-> AssignedSeatOf(sess, cls[s].deviceId)]],
         phantoms |-> {d \in DOMAIN sess : sess[d].isPhantom}]
      Both(a) == IoToEmit(a, conn, jn, "REGISTRY_UPDATE", fullRegistry)
                 \o IoToEmit(a, conn, jn, "ROOMS_UPDATE", sanitizedRooms)
      RECURSIVE Each(_)
      Each(i) == IF i > Len(adminSockets) THEN <<>>
                 ELSE Both(adminSockets[i]) \o Each(i + 1)
  IN Each(1)

\* broadcastState(roomId): the sanitized state to the room, then the admins.
broadcastState(roomId, rms, sess, cls, dbg, conn, jn) ==
  IF roomId = Null \/ roomId \notin DOMAIN rms THEN <<>>
  ELSE LET gs == rms[roomId]
           cleanState == [gs EXCEPT !.isDebugMode = dbg,
                                    !.slots = SanitizedSlots(gs, dbg)]
       IN IoToEmit(roomId, conn, jn, "STATE_UPDATE", cleanState)
          \o broadcastToAdmins(rms, sess, cls, dbg, conn, jn)

\* The counts updateClientCounts computes for a room.
ClientCountsOf(roomId, cls) ==
  [role \in {"PLAYER", "JUDGE", "STREAM", "UNASSIGNED", "PENDING_STREAM"} |->
     Cardinality({s \in DOMAIN cls : cls[s].roomId = roomId /\ cls[s].role = role})]

\* The rooms after updateClientCounts(roomId).
CountedRooms(roomId, rms, cls) ==
  IF roomId = Null \/ roomId \notin DOMAIN rms THEN rms
  ELSE [rms EXCEPT ![roomId].clientCounts = ClientCountsOf(roomId, cls)]

\* The state as updateClientCounts sends it to the room.
CountsStatePayload(gs) == gs

\* updateClientCounts(roomId): what it emits (the gameState as stored).
updateClientCounts(roomId, rms, sess, cls, dbg, conn, jn) ==
  IF roomId = Null \/ roomId \notin DOMAIN rms THEN <<>>
  ELSE LET rms2 == CountedRooms(roomId, rms, cls)
       IN IoToEmit(roomId, conn, jn, "STATE_UPDATE", CountsStatePayload(rms2[roomId]))
          \o broadcastToAdmins(rms2, sess, cls, dbg, conn, jn)

\* broadcastAvailableRooms()
broadcastAvailableRooms(rms, conn) == IoEmit(conn, "AVAILABLE_ROOMS", DOMAIN rms)

\* ----------------------------------------------------------------- records
Client(id, deviceId, name, role, roomId) ==
  [id |-> id, deviceId |-> deviceId, name |-> name, role |-> role, roomId |-> roomId]

\* A session; assignedSeat 0 stands for null / undefined.
Session(name, role, roomId, assignedSeat, isPhantom) ==
  [name |-> name, role |-> role, roomId |-> roomId,
   assignedSeat |-> assignedSeat, isPhantom |-> isPhantom]

Event(type, s, arg) == [type |-> type, socket |-> s, arg |-> arg]

\* state.clients[socket.id]?.role and ?.roomId
RoleOf(cls, s) == IF s \in DOMAIN cls THEN cls[s].role ELSE Null
RoomOf(cls, s) == IF s \in DOMAIN cls THEN cls[s].roomId ELSE Null

IsInRoom(cls, s) == s \in DOMAIN cls

IsJudgeOrAdmin(cls, s) == RoleOf(cls, s) = "JUDGE" \/ RoleOf(cls, s) = "ADMIN"

\* obj[key] = value on an object modelled as a function
Put(f, key, value) == (key :> value) @@ f

\* delete obj[key]
Remove(f, key) == [k \in DOMAIN f \ {key} |-> f[k]]

\* roomCode.toUpperCase().trim() on the room codes of the model
NormalizeRoomCode(code) == IF code = "a" THEN "A" ELSE code

\* A handler that returns early, or throws, before it changed or emitted
\* anything: nothing records it.
NoEffect == UNCHANGED state

\* ------------------------------------------------------------ credentials
\* crypto.pbkdf2Sync(password, salt, ...): a digest of the two, not the password
pbkdf2(password, salt) == <<"pbkdf2", password, salt>>

\* hashPassword(password, salt)
hashPassword(password, salt) == [salt |-> salt, hash |-> pbkdf2(password, salt)]

\* state.adminCredentials before the password is set up (null)
NoCredentials == [salt |-> Null, hash |-> <<>>]

\* verifyPasswordPlaintext(password)
verifyPasswordPlaintext(creds, password) ==
  /\ creds # NoCredentials
  /\ password # Null
  /\ pbkdf2(password, creds.salt) = creds.hash

\* ------------------------------------------------- storage (server/index.js)
DATA_SHARDS == 4
PARITY_SHARDS == 2
TOTAL_SHARDS == DATA_SHARDS + PARITY_SHARDS
ShardIndexes == 0..(TOTAL_SHARDS - 1)

DATA_SCHEMA_VERSION == 2

\* The object saveState serializes.  (version and globalSettings are not
\* followed.)
StoredData(admin, rms, sess, dbg) ==
  [schemaVersion |-> DATA_SCHEMA_VERSION,
   admin |-> admin, rooms |-> rms, sessions |-> sess, globalDebugMode |-> dbg]

\* JSON.stringify leaves out a member whose value is undefined.
StringifyMember(obj, key) ==
  IF obj[key] = Undefined THEN [k \in DOMAIN obj \ {key} |-> obj[k]] ELSE obj

\* Reading the member of a parsed object: undefined when it is absent.
ParseMember(json, key) ==
  IF key \in DOMAIN json THEN json ELSE (key :> Undefined) @@ json

\* JSON.stringify(data): the role of an entry of results and the name of a
\* session are the members that can be undefined.
JSONstringify(data) ==
  LET State(gs) == [gs EXCEPT !.results =
                      [turn \in DOMAIN gs.results |-> StringifyMember(gs.results[turn], "role")]]
  IN [data EXCEPT
        !.rooms = [r \in DOMAIN data.rooms |-> State(data.rooms[r])],
        !.sessions = [d \in DOMAIN data.sessions |->
                        StringifyMember(data.sessions[d], "name")]]

\* JSON.parse(text), read back member by member.
JSONparse(json) ==
  LET State(gs) == [gs EXCEPT !.results =
                      [turn \in DOMAIN gs.results |-> ParseMember(gs.results[turn], "role")]]
  IN [json EXCEPT
        !.rooms = [r \in DOMAIN json.rooms |-> State(json.rooms[r])],
        !.sessions = [d \in DOMAIN json.sessions |->
                        ParseMember(json.sessions[d], "name")]]

\* encryptStorage: AES-256-GCM of the JSON text; the text comes back only
\* from the whole ciphertext with its tag.  (The random IV is not followed:
\* two encryptions of equal data are taken as equal.)
encryptStorage(stateObject) == [sealed |-> JSONstringify(stateObject)]

decryptStorage(encrypted) == JSONparse(encrypted.sealed)

\* rsEngine.encode: shard i of the codeword of a payload, the shards
\* 0..DATA_SHARDS-1 being the payload's slices.
rsEncode(payload) == [i \in ShardIndexes |-> [of |-> payload, part |-> i]]

\* The bytes a computation on shards of different codewords yields: a
\* shard of no codeword.
Garbled(shard) == [shard EXCEPT !.part = -1]

\* A reconstruction that recovers nothing.
rsReconstructNothing(dat) ==
  [i \in ShardIndexes |->
     IF i \in DOMAIN dat THEN dat[i] ELSE Garbled(dat[CHOOSE j \in DOMAIN dat : TRUE])]

\* rsEngine.reconstruct: the missing shards computed from those present.
\* They are the codeword's when the shards present are of one codeword.
rsReconstruct(dat) ==
  LET present == DOMAIN dat
      first == dat[CHOOSE i \in present : TRUE]
      whole == \A i \in present : dat[i] = rsEncode(first.of)[i]
  IN [i \in ShardIndexes |->
        IF i \in present THEN dat[i]
        ELSE IF whole THEN rsEncode(first.of)[i] ELSE Garbled(first)]

\* The file operations of a saveState: TOTAL_SHARDS writes of shard_i.tmp,
\* then TOTAL_SHARDS renames of shard_i.tmp to shard_i.dat.
SaveOperations == 2 * TOTAL_SHARDS

\* The storage directory after the first done file operations of a
\* saveState of data.
SavedUpTo(dsk, data, done) ==
  LET shards == rsEncode(encryptStorage(data))
      written == {i \in ShardIndexes : i < done}
      renamed == {i \in ShardIndexes : i + TOTAL_SHARDS < done}
  IN [dat |-> [i \in DOMAIN dsk.dat \cup renamed |->
                 IF i \in renamed THEN shards[i] ELSE dsk.dat[i]],
      tmp |-> [i \in (DOMAIN dsk.tmp \cup written) \ renamed |->
                 IF i \in written THEN shards[i] ELSE dsk.tmp[i]]]

\* The storage directory after a saveState that ran to its end: every
\* shard_i.tmp written and renamed to shard_i.dat.
SavedDisk(data) == [dat |-> rsEncode(encryptStorage(data)), tmp |-> EmptyMap]

\* The storage directory without a file.
NoFiles == [dat |-> EmptyMap, tmp |-> EmptyMap]

\* saveState() at the end of a handler's changes: the directory holds the
\* snapshot of the state the handler leaves, or, when the process ends
\* before file operation saving' of the saveState, what the operations done
\* until then leave.  Without the engine saveState returns at once.
saveState ==
  disk' = IF ~rsEngine THEN disk
          ELSE SavedUpTo(disk,
                         StoredData(adminCredentials', rooms', sessions', globalDebugMode'),
                         IF saving' = 0 THEN SaveOperations ELSE saving' - 1)

\* The state of a process that has not loaded anything.
BootData == StoredData(NoCredentials, EmptyMap, EmptyMap, FALSE)

\* { ...defaultState, ...gs }: the members of gs, and those of defaultState
\* that gs has not.
Spread(defaultState, gs) ==
  [k \in DOMAIN defaultState \cup DOMAIN gs |->
     IF k \in DOMAIN gs THEN gs[k] ELSE defaultState[k]]

\* parsed.schemaVersion || 1
SchemaVersionOf(parsed) ==
  IF "schemaVersion" \in DOMAIN parsed THEN parsed.schemaVersion ELSE 1

\* upgradeDataSchema(parsed): a snapshot of an older schema gets the members
\* its rooms have not from getInitialGameState(), and the current version.
upgradeDataSchema(parsed) ==
  IF SchemaVersionOf(parsed) < DATA_SCHEMA_VERSION
  THEN [k \in DOMAIN parsed \cup {"schemaVersion"} |->
          IF k = "schemaVersion" THEN DATA_SCHEMA_VERSION
          ELSE IF k = "rooms"
          THEN [r \in DOMAIN parsed.rooms |-> Spread(getInitialGameState, parsed.rooms[r])]
          ELSE parsed[k]]
  ELSE parsed

\* loadState: the outcome, the data installed, and the directory it leaves.
\* With shards missing it reconstructs them and calls saveState() before
\* the loaded data are installed, the state being the boot state still.
\* What it decrypts passes through upgradeDataSchema and is installed when
\* its version is then the current one.
loadState(dsk, engine) ==
  LET present == DOMAIN dsk.dat
      availableCount == Cardinality(present)
  IN IF ~engine \/ availableCount = 0
     THEN [outcome |-> "no shards", data |-> BootData, disk |-> dsk]
     ELSE IF availableCount < DATA_SHARDS
     THEN [outcome |-> "unrecoverable", data |-> BootData, disk |-> dsk]
     ELSE
       LET healed == availableCount < TOTAL_SHARDS
           shards == IF healed THEN rsReconstruct(dsk.dat) ELSE dsk.dat
           after == IF healed THEN SavedDisk(BootData) ELSE dsk
           whole == \A i \in 0..(DATA_SHARDS - 1) : shards[i] = rsEncode(shards[0].of)[i]
       IN IF ~whole
          THEN [outcome |-> "not decrypted", data |-> BootData, disk |-> after]
          ELSE LET parsed == upgradeDataSchema(decryptStorage(shards[0].of))
               IN IF parsed.schemaVersion = DATA_SCHEMA_VERSION
                  THEN [outcome |-> "restored", data |-> parsed, disk |-> after]
                  ELSE [outcome |-> "schema mismatch", data |-> BootData, disk |-> after]

\* ----------------------------------------------------------- the snapshot
\* A server that started without its storage engine (nothing is written):
\* one table with its judge and its player, and the admin's session.
Init ==
  /\ rooms = ("A" :> getInitialGameState)
  /\ sessions = ("dA" :> Session("Tournament Admin", "ADMIN", GLOBAL, 0, FALSE))
                @@ ("dJ" :> Session("Ann", "JUDGE", "A", 0, FALSE))
                @@ ("dP" :> Session("Ann", "PLAYER", "A", 0, FALSE))
  /\ clients = EmptyMap
  /\ globalDebugMode = FALSE
  /\ connected = {}
  /\ socketDeviceId = [s \in SocketIds |-> Null]
  /\ joined = [s \in SocketIds |-> {}]
  /\ emitted = <<>>
  /\ lastEvent = Event("boot", Null, Null)
  /\ clientKeys = EmptyMap
  /\ adminCredentials = hashPassword("pw0", "salt0")
  /\ messageCount = [s \in SocketIds |-> 0]
  /\ lastPacket = [socket |-> Null, event |-> Null, verdict |-> Null]
  /\ ipConnectionCounts = EmptyMap
  /\ loginAttempts = EmptyMap
  /\ loginChallenges = EmptyMap
  /\ disk = NoFiles
  /\ now = 0
  /\ saving = 0
  /\ rsEngine = FALSE

\* ------------------------------------------------- connection, disconnect
MAX_CONNECTIONS_PER_IP == 5

\* state.ipConnectionCounts[ip], 0 when the address has no entry
ConnectionCount(counts, ip) == IF ip \in DOMAIN counts THEN counts[ip] ELSE 0

\* An admission without the limit.
AdmitsAlways(counts, ip) == TRUE

\* The io.use admission: an address that has MAX_CONNECTIONS_PER_IP
\* connections counted is refused.
Admits(counts, ip) == ConnectionCount(counts, ip) < MAX_CONNECTIONS_PER_IP

\* Every address taken for the server's own.
isLocalhostAny(ip) == TRUE

\* isLocalhost of the connection handler
isLocalhost(ip) == ip = Loopback

\* A connection attempt: the io.use admission, then io.on('connection').
\* A refused attempt leaves everything as it is.  An admitted one is counted;
\* while no password is set up a remote socket is disconnected before any
\* handler is registered (its count stays), a local one is told
\* SETUP_REQUIRED; the socket is told the rooms.  (A socket id is new with
\* every connection: it has no challenge yet.)
Connection(s) ==
  /\ s \notin connected
  /\ LET ip == IpOf(s)
     IN IF ~Admits(ipConnectionCounts, ip)
        THEN /\ lastEvent' = Event("connection refused", s, Null)
             /\ UNCHANGED <<access, connected, emitted>>
        ELSE /\ ipConnectionCounts' =
                  (ip :> ConnectionCount(ipConnectionCounts, ip) + 1) @@ ipConnectionCounts
             /\ loginChallenges' = Remove(loginChallenges, s)
             /\ UNCHANGED loginAttempts
             /\ IF adminCredentials = NoCredentials /\ ~isLocalhost(ip)
                THEN /\ lastEvent' = Event("connection blocked", s, Null)
                     /\ UNCHANGED <<connected, emitted>>
                ELSE /\ connected' = connected \cup {s}
                     /\ emitted' =
                          (IF adminCredentials = NoCredentials
                           THEN SocketEmit(s, connected', "SETUP_REQUIRED", Null)
                           ELSE <<>>)
                          \o SocketEmit(s, connected', "AVAILABLE_ROOMS", DOMAIN rooms)
                     /\ lastEvent' = Event("connection", s, Null)
  /\ UNCHANGED <<disk, clientKeys, adminCredentials, rooms, sessions, clients, globalDebugMode, socketDeviceId, joined>>

\* socket.on('disconnect')
Disconnect(s) ==
  /\ s \in connected
  /\ LET roomId == RoomOf(clients, s)
         cls == Remove(clients, s)
         conn == connected \ {s}
         jn == [joined EXCEPT ![s] = {}]
         ip == IpOf(s)
         count == IF ConnectionCount(ipConnectionCounts, ip) > 0
                  THEN ConnectionCount(ipConnectionCounts, ip) - 1
                  ELSE 0
     IN /\ clients' = cls
        /\ connected' = conn
        /\ joined' = jn
        /\ socketDeviceId' = [socketDeviceId EXCEPT ![s] = Null]
        /\ rooms' = CountedRooms(roomId, rooms, cls)
        /\ ipConnectionCounts' =
             IF count = 0 THEN Remove(ipConnectionCounts, ip)
             ELSE (ip :> count) @@ ipConnectionCounts
        /\ emitted' =
             IF roomId # Null
             THEN updateClientCounts(roomId, rooms, sessions, cls, globalDebugMode, conn, jn)
                  \o broadcastToAdmins(rooms', sessions, cls, globalDebugMode, conn, jn)
             ELSE <<>>
  /\ clientKeys' = Remove(clientKeys, s)
  /\ lastEvent' = Event("disconnect", s, Null)
  /\ UNCHANGED <<loginAttempts, loginChallenges, disk, adminCredentials, sessions, globalDebugMode>>

\* socket.on('SETUP_ADMIN'); salt is the fresh salt of the hash.
SetupAdmin(s, newPass, salt) ==
  /\ s \in connected
  /\ IF adminCredentials # NoCredentials
     THEN NoEffect
     ELSE /\ adminCredentials' = hashPassword(newPass, salt)
          /\ emitted' = IoEmit(connected, "SETUP_COMPLETE", Null)
          /\ lastEvent' = Event("SETUP_ADMIN", s, Null)
          /\ UNCHANGED <<access, rooms, sessions, clients, globalDebugMode, connected,
                         socketDeviceId, joined, clientKeys>>
          /\ saveState

\* ------------------------------------------------------ IDENTIFY, JOIN_ROOM
\* The tokens that are not 64 characters long, and the length of a token.
ShortTokens == {"d5"}
TokenLength(token) == IF token \in ShortTokens THEN 5 ELSE 64

\* A session whose room is never taken for deleted.
RoomGoneNever(session, rms) == FALSE

\* roomId !== 'GLOBAL' && !state.rooms[roomId] && role !== 'ADMIN'
RoomGone(session, rms) ==
  /\ session.roomId # GLOBAL
  /\ session.roomId \notin DOMAIN rms
  /\ session.role # "ADMIN"

\* !(!deviceId || deviceId.length !== 64)
WellFormedToken(token) ==
  /\ token \notin {Null, Undefined}
  /\ TokenLength(token) = 64

\* The first IDENTIFY listener (the lobby sync): a connection that has a key
\* is told the debug mode.
DebugSync(s) ==
  IF s \in DOMAIN clientKeys
  THEN SocketEmit(s, connected, "GLOBAL_DEBUG_UPDATE", globalDebugMode)
  ELSE <<>>

\* socket.on('IDENTIFY'); a token that is absent or not 64 characters is Null.
Identify(s, clientDeviceId) ==
  /\ s \in connected
  /\ IF ~WellFormedToken(clientDeviceId)
     THEN /\ emitted' = DebugSync(s) \o SocketEmit(s, connected, "ASSIGN_NEW_DEVICE_ID", "secureToken")
          /\ lastEvent' = Event("IDENTIFY", s, clientDeviceId)
          /\ UNCHANGED <<access, disk, clientKeys, adminCredentials, rooms, sessions, clients, globalDebugMode, connected,
                         socketDeviceId, joined>>
     ELSE
       LET deviceId == clientDeviceId
           hasRoom == deviceId \in DOMAIN sessions /\ sessions[deviceId].roomId # Null
       IN /\ socketDeviceId' = [socketDeviceId EXCEPT ![s] = deviceId]
          /\ IF ~hasRoom
             THEN /\ emitted' = DebugSync(s)
                  /\ lastEvent' = Event("IDENTIFY", s, clientDeviceId)
                  /\ UNCHANGED <<access, disk, clientKeys, adminCredentials, rooms, sessions, clients, joined>>
             ELSE
               LET session == sessions[deviceId]
                   roomId == session.roomId
               IN IF RoomGone(session, rooms)
                  THEN /\ sessions' = [sessions EXCEPT ![deviceId].roomId = Null,
                                                       ![deviceId].role = "UNASSIGNED"]
                       /\ emitted' = DebugSync(s) \o SocketEmit(s, connected, "ROLE_ASSIGNED", "UNASSIGNED")
                       /\ lastEvent' = Event("IDENTIFY", s, clientDeviceId)
                       /\ UNCHANGED <<access, disk, clientKeys, adminCredentials, rooms, clients, joined>>
                  ELSE
                    LET cls == Put(clients, s, Client(s, deviceId, session.name, session.role, roomId))
                        jn == IF roomId # GLOBAL
                              THEN [joined EXCEPT ![s] = @ \cup {roomId}] ELSE joined
                        rms == IF roomId # GLOBAL THEN CountedRooms(roomId, rooms, cls) ELSE rooms
                        sync == IF roomId # GLOBAL
                                THEN (IF roomId \in DOMAIN rooms
                                      THEN SocketEmit(s, connected, "STATE_UPDATE", rooms[roomId])
                                      ELSE <<>>)
                                     \o updateClientCounts(roomId, rooms, sessions, cls,
                                                           globalDebugMode, connected, jn)
                                ELSE <<>>
                    IN /\ clients' = cls
                       /\ joined' = jn
                       /\ rooms' = rms
                       /\ emitted' = DebugSync(s) \o sync
                            \o SocketEmit(s, connected, "ROLE_ASSIGNED", session.role)
                            \o broadcastToAdmins(rms, sessions, cls, globalDebugMode, connected, jn)
                       /\ lastEvent' = Event("IDENTIFY", s, clientDeviceId)
                       /\ UNCHANGED sessions
          /\ UNCHANGED <<access, disk, clientKeys, adminCredentials, globalDebugMode, connected>>

\* socket.on('JOIN_ROOM')
JoinRoom(s, name, roomCode) ==
  /\ s \in connected
  /\ LET roomId == NormalizeRoomCode(roomCode)
         arg == [name |-> name, roomCode |-> roomCode]
     IN IF socketDeviceId[s] = Null \/ roomId \notin DOMAIN rooms
        THEN NoEffect
        ELSE
          LET deviceId == socketDeviceId[s]
              jn == [joined EXCEPT ![s] = @ \cup {roomId}]
              sess == Put(sessions, deviceId, Session(name, "UNASSIGNED", roomId, 0, FALSE))
              cls == Put(clients, s, Client(s, deviceId, name, "UNASSIGNED", roomId))
              rms == CountedRooms(roomId, rooms, cls)
          IN /\ joined' = jn
             /\ sessions' = sess
             /\ clients' = cls
             /\ rooms' = rms
             /\ emitted' = updateClientCounts(roomId, rooms, sess, cls, globalDebugMode, connected, jn)
                           \o broadcastToAdmins(rms, sess, cls, globalDebugMode, connected, jn)
             /\ lastEvent' = Event("JOIN_ROOM", s, arg)
             /\ UNCHANGED <<access, disk, clientKeys, adminCredentials, globalDebugMode, connected, socketDeviceId>>

\* ------------------------------------------------------------ admin events
\* socket.on('CREATE_ROOM')
CreateRoom(s, roomCode) ==
  /\ s \in connected
  /\ LET roomId == NormalizeRoomCode(roomCode)
     IN IF RoleOf(clients, s) # "ADMIN"
        THEN /\ emitted' = SocketEmit(s, connected, "ROLE_ASSIGNED", "UNASSIGNED")
             /\ lastEvent' = Event("CREATE_ROOM", s, roomCode)
             /\ UNCHANGED <<access, disk, clientKeys, adminCredentials, rooms, sessions, clients, globalDebugMode, connected,
                            socketDeviceId, joined>>
        ELSE IF roomId \in DOMAIN rooms
        THEN NoEffect
        ELSE /\ rooms' = Put(rooms, roomId, getInitialGameState)
             /\ emitted' = broadcastAvailableRooms(rooms', connected)
                           \o broadcastToAdmins(rooms', sessions, clients, globalDebugMode,
                                                connected, joined)
             /\ lastEvent' = Event("CREATE_ROOM", s, roomCode)
             /\ UNCHANGED <<access, clientKeys, adminCredentials, sessions, clients, globalDebugMode, connected,
                            socketDeviceId, joined>>
             /\ saveState

\* The clients DELETE_ROOM evicts from a room.
Evicted(roomId, cls) == {c \in DOMAIN cls : cls[c].roomId = roomId /\ cls[c].role # "ADMIN"}

EvictedRole(role) == IF role = "STREAM" THEN "PENDING_STREAM" ELSE "UNASSIGNED"
EvictedRoom(role) == IF role = "STREAM" THEN GLOBAL ELSE Null

\* socket.on('DELETE_ROOM')
DeleteRoom(s, roomId) ==
  /\ s \in connected
  /\ IF RoleOf(clients, s) # "ADMIN" \/ roomId \notin DOMAIN rooms
     THEN NoEffect
     ELSE IF rooms[roomId].areRolesLocked
     THEN NoEffect
     ELSE
       LET out == Evicted(roomId, clients)
           cls == [c \in DOMAIN clients |->
                     IF c \in out
                     THEN [clients[c] EXCEPT !.role = EvictedRole(clients[c].role),
                                             !.roomId = EvictedRoom(clients[c].role)]
                     ELSE clients[c]]
           devs == {clients[c].deviceId : c \in out}
           \* the last evicted client of a device decides its session
           DevRole(d) == LET mine == SelectSeq(InOrder(out), LAMBDA c : clients[c].deviceId = d)
                         IN mine[Len(mine)]
           sess == [d \in DOMAIN sessions |->
                      IF d \in devs
                      THEN [sessions[d] EXCEPT
                              !.role = EvictedRole(clients[DevRole(d)].role),
                              !.roomId = EvictedRoom(clients[DevRole(d)].role)]
                      ELSE sessions[d]]
           jn == IF out = {} THEN joined
                 ELSE [c \in DOMAIN joined |-> joined[c] \ {roomId}]
           rms == Remove(rooms, roomId)
           told == [i \in 1..Len(InOrder(out)) |->
                      Msg(InOrder(out)[i], "ROLE_ASSIGNED", cls[InOrder(out)[i]].role)]
       IN /\ clients' = cls
          /\ sessions' = sess
          /\ joined' = jn
          /\ rooms' = rms
          /\ emitted' = told \o broadcastAvailableRooms(rms, connected)
                        \o broadcastToAdmins(rms, sess, cls, globalDebugMode, connected, jn)
          /\ lastEvent' = Event("DELETE_ROOM", s, roomId)
          /\ UNCHANGED <<access, clientKeys, adminCredentials, globalDebugMode, connected, socketDeviceId>>
          /\ saveState

\* `Stream Request (${browserType})`
StreamName(userAgent) ==
  IF userAgent = "OBS" THEN "Stream Request (OBS Studio)"
  ELSE IF userAgent = "Chrome" THEN "Stream Request (Chrome)"
  ELSE "Stream Request (Unknown Source)"

\* socket.on('REQUEST_STREAM_ACCESS'); the key of an absent deviceId is the
\* text 'undefined'.
RequestStreamAccess(s, deviceId, userAgent) ==
  /\ s \in connected
  /\ LET roomId == GLOBAL
         jn == [joined EXCEPT ![s] = @ \cup {roomId}]
         sess == IF deviceId \in DOMAIN sessions THEN sessions
                 ELSE Put(sessions, deviceId,
                          Session("Stream Request", "PENDING_STREAM", roomId, 0, FALSE))
         client == Client(s, deviceId, sess[deviceId].name, sess[deviceId].role, roomId)
     IN /\ joined' = jn
        /\ IF client.role = "STREAM"
           THEN /\ sessions' = sess
                /\ clients' = Put(clients, s, client)
                /\ emitted' = IoToEmit(s, connected, jn, "ROLE_ASSIGNED", "STREAM")
           ELSE LET streamName == StreamName(userAgent)
                    cls == Put(clients, s,
                               [client EXCEPT !.role = "PENDING_STREAM", !.name = streamName])
                    named == [sess EXCEPT ![deviceId].role = "PENDING_STREAM",
                                          ![deviceId].name = streamName]
                IN /\ sessions' = named
                   /\ clients' = cls
                   /\ emitted' = IoToEmit(s, connected, jn, "ROLE_ASSIGNED", "PENDING_STREAM")
                        \o IoToEmit(s, connected, jn, "STREAM_IP", IpOf(s))
                        \o broadcastToAdmins(rooms, named, cls, globalDebugMode, connected, jn)
  /\ lastEvent' = Event("REQUEST_STREAM_ACCESS", s, deviceId)
  /\ UNCHANGED <<access, disk, rooms, globalDebugMode, connected, socketDeviceId, clientKeys,
                 adminCredentials>>

\* socket.on('VERIFY_STREAM')
VerifyStream(s, targetSocketId, targetRoomId) ==
  /\ s \in connected
  /\ LET arg == [targetSocketId |-> targetSocketId, targetRoomId |-> targetRoomId]
     IN IF RoleOf(clients, s) # "ADMIN" \/ targetSocketId \notin DOMAIN clients
           \/ targetRoomId \notin DOMAIN rooms
        THEN NoEffect
        ELSE
          LET d == clients[targetSocketId].deviceId
              cls == [clients EXCEPT ![targetSocketId].roomId = targetRoomId,
                                     ![targetSocketId].role = "STREAM"]
          IN IF d \notin DOMAIN sessions
             THEN /\ clients' = cls
                  /\ emitted' = <<>>
                  /\ lastEvent' = Event("VERIFY_STREAM", s, arg)
                  /\ UNCHANGED <<access, disk, clientKeys, adminCredentials, rooms, sessions, globalDebugMode, connected,
                                 socketDeviceId, joined>>
             ELSE
               LET sess == [sessions EXCEPT ![d].roomId = targetRoomId, ![d].role = "STREAM"]
                   jn == [joined EXCEPT ![targetSocketId] = (@ \ {GLOBAL}) \cup {targetRoomId}]
                   rms == CountedRooms(targetRoomId, rooms, cls)
               IN /\ clients' = cls
                  /\ sessions' = sess
                  /\ joined' = jn
                  /\ rooms' = rms
                  /\ emitted' = IoToEmit(targetSocketId, connected, jn, "ROLE_ASSIGNED", "STREAM")
                       \o updateClientCounts(targetRoomId, rooms, sess, cls, globalDebugMode,
                                             connected, jn)
                       \o broadcastToAdmins(rms, sess, cls, globalDebugMode, connected, jn)
                  /\ lastEvent' = Event("VERIFY_STREAM", s, arg)
                  /\ UNCHANGED <<access, disk, clientKeys, adminCredentials, globalDebugMode, connected, socketDeviceId>>

\* socket.on('ASSIGN_ROLE')
AssignRole(s, targetSocketId, newRole) ==
  /\ s \in connected
  /\ LET arg == [targetSocketId |-> targetSocketId, newRole |-> newRole]
         roomId == RoomOf(clients, targetSocketId)
     IN IF RoleOf(clients, s) # "ADMIN" \/ targetSocketId \notin DOMAIN clients
        THEN NoEffect
        ELSE IF roomId \notin DOMAIN rooms
        THEN NoEffect
        ELSE IF rooms[roomId].areRolesLocked
                \/ (clients[targetSocketId].name = "Anonymous"
                    /\ newRole # "ADMIN" /\ newRole # "UNASSIGNED")
        THEN NoEffect
        ELSE
          LET d == clients[targetSocketId].deviceId
              cls == [clients EXCEPT ![targetSocketId].role = newRole]
          IN IF d \notin DOMAIN sessions
             THEN /\ clients' = cls
                  /\ emitted' = <<>>
                  /\ lastEvent' = Event("ASSIGN_ROLE", s, arg)
                  /\ UNCHANGED <<access, disk, clientKeys, adminCredentials, rooms, sessions, globalDebugMode, connected,
                                 socketDeviceId, joined>>
             ELSE
               LET sess == [sessions EXCEPT
                              ![d].role = newRole,
                              ![d].assignedSeat = IF newRole # "PLAYER" THEN 0 ELSE @]
                   rms == CountedRooms(roomId, rooms, cls)
               IN /\ clients' = cls
                  /\ sessions' = sess
                  /\ rooms' = rms
                  /\ emitted' = IoToEmit(targetSocketId, connected, joined, "ROLE_ASSIGNED", newRole)
                       \o updateClientCounts(roomId, rooms, sess, cls, globalDebugMode,
                                             connected, joined)
                       \o broadcastToAdmins(rms, sess, cls, globalDebugMode, connected, joined)
                  /\ lastEvent' = Event("ASSIGN_ROLE", s, arg)
                  /\ UNCHANGED <<access, disk, clientKeys, adminCredentials, globalDebugMode, connected, socketDeviceId, joined>>

\* socket.on('RESET_CLIENT')
ResetClient(s, targetSocketId) ==
  /\ s \in connected
  /\ IF RoleOf(clients, s) # "ADMIN" \/ targetSocketId \notin DOMAIN clients
     THEN NoEffect
     ELSE
       LET roomId == clients[targetSocketId].roomId
           d == clients[targetSocketId].deviceId
           cls == [clients EXCEPT ![targetSocketId].role = "UNASSIGNED"]
       IN IF d \notin DOMAIN sessions
          THEN /\ clients' = cls
               /\ emitted' = <<>>
               /\ lastEvent' = Event("RESET_CLIENT", s, targetSocketId)
               /\ UNCHANGED <<access, disk, clientKeys, adminCredentials, rooms, sessions, globalDebugMode, connected,
                              socketDeviceId, joined>>
          ELSE
            LET sess == [sessions EXCEPT ![d].role = "UNASSIGNED"]
                rms == CountedRooms(roomId, rooms, cls)
            IN /\ clients' = cls
               /\ sessions' = sess
               /\ rooms' = rms
               /\ emitted' = IoToEmit(targetSocketId, connected, joined, "ROLE_ASSIGNED", "UNASSIGNED")
                    \o updateClientCounts(roomId, rooms, sess, cls, globalDebugMode,
                                          connected, joined)
                    \o broadcastToAdmins(rms, sess, cls, globalDebugMode, connected, joined)
               /\ lastEvent' = Event("RESET_CLIENT", s, targetSocketId)
               /\ UNCHANGED <<access, disk, clientKeys, adminCredentials, globalDebugMode, connected, socketDeviceId, joined>>

UniqueSeatsAssumed(roomId, sess) == 1..10

\* The seats TOGGLE_ROLE_LOCK counts in single mode.
UniqueSeats(roomId, sess) ==
  {sess[d].assignedSeat : d \in {x \in DOMAIN sess :
      sess[x].roomId = roomId /\ sess[x].role = "PLAYER" /\ sess[x].assignedSeat # 0}}

DraftRunningNever(gs) == FALSE

\* gameState.status === 'IN_PROGRESS'
DraftRunning(gs) == gs.status = "IN_PROGRESS"

\* socket.on('TOGGLE_ROLE_LOCK')
ToggleRoleLock(s, roomId, booleanState) ==
  /\ s \in connected
  /\ LET arg == [roomId |-> roomId, booleanState |-> booleanState]
     IN IF RoleOf(clients, s) # "ADMIN" \/ roomId \notin DOMAIN rooms
        THEN NoEffect
        ELSE IF DraftRunning(rooms[roomId])
        THEN NoEffect
        ELSE IF booleanState /\ rooms[roomId].settings.singleMode
                /\ Cardinality(UniqueSeats(roomId, sessions)) # 10
        THEN /\ emitted' = SocketEmit(s, connected, "ADMIN_ERROR",
                    "Single Mode requires exactly 10 players to be assigned unique seats (1-10) before locking.")
             /\ lastEvent' = Event("TOGGLE_ROLE_LOCK", s, arg)
             /\ UNCHANGED <<access, disk, clientKeys, adminCredentials, rooms, sessions, clients, globalDebugMode, connected,
                            socketDeviceId, joined>>
        ELSE /\ rooms' = [rooms EXCEPT ![roomId].areRolesLocked = booleanState]
             /\ emitted' = IoToEmit(roomId, connected, joined, "STATE_UPDATE", rooms'[roomId])
                  \o broadcastToAdmins(rooms', sessions, clients, globalDebugMode,
                                       connected, joined)
             /\ lastEvent' = Event("TOGGLE_ROLE_LOCK", s, arg)
             /\ UNCHANGED <<access, disk, clientKeys, adminCredentials, sessions, clients, globalDebugMode, connected,
                            socketDeviceId, joined>>

\* broadcastState for every room, in turn.
RECURSIVE broadcastStateAll(_, _, _, _, _, _, _)
broadcastStateAll(todo, rms, sess, cls, dbg, conn, jn) ==
  IF todo = {} THEN <<>>
  ELSE LET r == CHOOSE x \in todo : TRUE
       IN broadcastState(r, rms, sess, cls, dbg, conn, jn)
          \o broadcastStateAll(todo \ {r}, rms, sess, cls, dbg, conn, jn)

\* socket.on('TOGGLE_GLOBAL_DEBUG'); the acknowledgement is the message ACK.
ToggleGlobalDebug(s, booleanState) ==
  /\ s \in connected
  /\ IF RoleOf(clients, s) # "ADMIN"
     THEN /\ emitted' = Ack(s, [success |-> FALSE, message |-> "Unauthorized"])
          /\ lastEvent' = Event("TOGGLE_GLOBAL_DEBUG", s, booleanState)
          /\ UNCHANGED <<access, disk, clientKeys, adminCredentials, rooms, sessions, clients, globalDebugMode, connected,
                         socketDeviceId, joined>>
     ELSE IF \E r \in DOMAIN rooms : rooms[r].status # "PENDING"
     THEN /\ emitted' = Ack(s, [success |-> FALSE,
                  message |-> "Cannot change Debug Mode while a draft is active."])
          /\ lastEvent' = Event("TOGGLE_GLOBAL_DEBUG", s, booleanState)
          /\ UNCHANGED <<access, disk, clientKeys, adminCredentials, rooms, sessions, clients, globalDebugMode, connected,
                         socketDeviceId, joined>>
     ELSE
       LET phantoms == {d \in DOMAIN sessions : sessions[d].isPhantom}
           affectedRooms == {sessions[d].roomId : d \in phantoms}
           sess == IF ~booleanState
                   THEN [d \in DOMAIN sessions \ phantoms |-> sessions[d]]
                   ELSE sessions
           rms == IF ~booleanState
                  THEN [r \in DOMAIN rooms |->
                          IF r \in affectedRooms /\ rooms[r].status = "PENDING"
                          THEN [rooms[r] EXCEPT !.areRolesLocked = FALSE]
                          ELSE rooms[r]]
                  ELSE rooms
       IN /\ globalDebugMode' = booleanState
          /\ sessions' = sess
          /\ rooms' = rms
          /\ emitted' = broadcastStateAll(DOMAIN rms, rms, sess, clients, booleanState,
                                          connected, joined)
               \o IoEmit(connected, "GLOBAL_DEBUG_UPDATE", booleanState)
               \o Ack(s, [success |-> TRUE, message |-> Null])
          /\ lastEvent' = Event("TOGGLE_GLOBAL_DEBUG", s, booleanState)
          /\ UNCHANGED <<access, clientKeys, adminCredentials, clients, connected, socketDeviceId, joined>>
          /\ saveState

\* ------------------------------------------- single mode, seats, phantoms
\* socket.on('TOGGLE_SINGLE_MODE')
ToggleSingleMode(s, roomId, booleanState) ==
  /\ s \in connected
  /\ IF RoleOf(clients, s) # "ADMIN" \/ roomId \notin DOMAIN rooms
     THEN NoEffect
     ELSE IF rooms[roomId].status # "PENDING"
     THEN NoEffect
     ELSE
       LET rms == [rooms EXCEPT ![roomId].settings.singleMode = booleanState]
           gone == IF ~booleanState
                   THEN {d \in DOMAIN sessions :
                           sessions[d].isPhantom /\ sessions[d].roomId = roomId}
                   ELSE {}
           sess == [d \in DOMAIN sessions \ gone |-> sessions[d]]
       IN /\ rooms' = rms
          /\ sessions' = sess
          /\ emitted' = broadcastToAdmins(rms, sess, clients, globalDebugMode, connected, joined)
          /\ lastEvent' = Event("TOGGLE_SINGLE_MODE", s,
                                [roomId |-> roomId, booleanState |-> booleanState])
          /\ UNCHANGED <<access, clients, globalDebugMode, connected, socketDeviceId, joined,
                         clientKeys, adminCredentials>>
          /\ saveState

\* `phantom_${roomId}_seat_${i}` for the room of the model
PhantomId(roomId, i) ==
  <<"phantom_A_seat_1", "phantom_A_seat_2", "phantom_A_seat_3", "phantom_A_seat_4",
    "phantom_A_seat_5", "phantom_A_seat_6", "phantom_A_seat_7", "phantom_A_seat_8",
    "phantom_A_seat_9", "phantom_A_seat_10">>[i]

\* The sessions after the loop of SPAWN_PHANTOMS has reached seat i.
RECURSIVE SpawnedUpTo(_, _, _, _)
SpawnedUpTo(sess, roomId, existingSeats, i) ==
  IF i = 0 THEN sess
  ELSE LET before == SpawnedUpTo(sess, roomId, existingSeats, i - 1)
       IN IF i \in existingSeats THEN before
          ELSE Put(before, PhantomId(roomId, i),
                   Session(Undefined, "PLAYER", roomId, i, TRUE))

\* socket.on('SPAWN_PHANTOMS')
SpawnPhantoms(s, roomId) ==
  /\ s \in connected
  /\ IF RoleOf(clients, s) # "ADMIN"
     THEN /\ emitted' = Ack(s, [success |-> FALSE, message |-> Null])
          /\ lastEvent' = Event("SPAWN_PHANTOMS", s, roomId)
          /\ UNCHANGED <<access, disk, rooms, sessions, clients, globalDebugMode, connected,
                         socketDeviceId, joined, clientKeys, adminCredentials>>
     ELSE IF ~globalDebugMode
     THEN /\ emitted' = Ack(s, [success |-> FALSE, message |-> "Debug mode required"])
          /\ lastEvent' = Event("SPAWN_PHANTOMS", s, roomId)
          /\ UNCHANGED <<access, disk, rooms, sessions, clients, globalDebugMode, connected,
                         socketDeviceId, joined, clientKeys, adminCredentials>>
     ELSE
       LET existingSeats == UniqueSeats(roomId, sessions)
           sess == SpawnedUpTo(sessions, roomId, existingSeats, 10)
       IN /\ sessions' = sess
          /\ emitted' = broadcastToAdmins(rooms, sess, clients, globalDebugMode,
                                          connected, joined)
                        \o Ack(s, [success |-> TRUE, message |-> Null])
          /\ lastEvent' = Event("SPAWN_PHANTOMS", s, roomId)
          /\ UNCHANGED <<access, rooms, clients, globalDebugMode, connected,
                         socketDeviceId, joined, clientKeys, adminCredentials>>
          /\ saveState

\* Object.values(state.clients).find(c => c.deviceId === targetDeviceId)
ClientOfDevice(cls, d) ==
  LET found == InOrder({c \in DOMAIN cls : cls[c].deviceId = d})
  IN IF Len(found) = 0 THEN {} ELSE {found[1]}

\* socket.on('ASSIGN_SEAT'); seatNumber 0 stands for a falsy seatNumber.
AssignSeat(s, targetDeviceId, seatNumber) ==
  /\ s \in connected
  /\ IF RoleOf(clients, s) # "ADMIN" \/ targetDeviceId \notin DOMAIN sessions
     THEN NoEffect
     ELSE
       LET roomId == sessions[targetDeviceId].roomId
       IN IF roomId \in DOMAIN rooms /\ rooms[roomId].areRolesLocked
          THEN NoEffect
          ELSE
            LET sess == [sessions EXCEPT ![targetDeviceId].assignedSeat = seatNumber]
            IN /\ sessions' = sess
               /\ emitted' = broadcastToAdmins(rooms, sess, clients, globalDebugMode,
                                               connected, joined)
                     \o EmitAll(ClientOfDevice(clients, targetDeviceId) \cap connected,
                                "SEAT_ASSIGNED", seatNumber)
               /\ lastEvent' = Event("ASSIGN_SEAT", s,
                                     [targetDeviceId |-> targetDeviceId,
                                      seatNumber |-> seatNumber])
               /\ UNCHANGED <<access, rooms, clients, globalDebugMode, connected,
                              socketDeviceId, joined, clientKeys, adminCredentials>>
               /\ saveState

\* ------------------------------------- REQUEST_LOGIN_CHALLENGE, ADMIN_LOGIN
\* The failures after which an address is locked out, and the minutes of
\* the lockout (the clock of the model counts minutes).
MAX_LOGIN_FAILURES == 5
LOCKOUT_MINUTES == 10

\* The bytes of a hex digest of SHA-256.
DigestBytes == 32

\* crypto.createHmac('sha256', nonce).update(hash).digest('hex'), and what
\* Buffer.from(text, 'hex') makes of it: its bytes.
hmacSha256(nonce, hash) == [bytes |-> DigestBytes, digest |-> <<nonce, hash>>]

\* A response that is not the hex text of 32 bytes: a shorter text, a text
\* that is not hex (Buffer.from(text, 'hex') stops at the first such
\* character).
Truncated(response, bytes) == [response EXCEPT !.bytes = bytes]

\* state.loginAttempts[clientIp] || { count: 0, lockoutUntil: 0 }
AttemptData(attempts, ip) ==
  IF ip \in DOMAIN attempts THEN attempts[ip] ELSE [count |-> 0, lockoutUntil |-> 0]

\* An address that is never locked out.
LockedOutNever(attempts, ip, time) == FALSE

\* Date.now() < attemptData.lockoutUntil
LockedOut(attempts, ip, time) == time < AttemptData(attempts, ip).lockoutUntil

\* state.loginChallenges[socket.id]
ActiveNonce(challenges, s) == IF s \in DOMAIN challenges THEN challenges[s] ELSE Null

\* verifyAdmin(clientHmacResponse, nonce): false without a password or a
\* nonce; crypto.timingSafeEqual throws when the two buffers differ in
\* length; else whether the response is the HMAC of the stored hash under
\* the nonce.
verifyAdmin(creds, clientHmacResponse, nonce) ==
  IF creds = NoCredentials \/ nonce = Null THEN "false"
  ELSE IF clientHmacResponse.bytes # DigestBytes THEN "throws"
  ELSE IF clientHmacResponse = hmacSha256(nonce, creds.hash) THEN "true"
  ELSE "false"

\* socket.on('REQUEST_LOGIN_CHALLENGE'); nonce is the fresh random nonce.
RequestLoginChallenge(s, nonce) ==
  /\ s \in connected
  /\ lastEvent' = Event("REQUEST_LOGIN_CHALLENGE", s, Null)
  /\ IF adminCredentials = NoCredentials
     THEN /\ emitted' = Ack(s, [success |-> FALSE, message |-> "Server not configured."])
          /\ UNCHANGED access
     ELSE IF LockedOut(loginAttempts, IpOf(s), now)
     THEN /\ emitted' = Ack(s, [success |-> FALSE, message |-> "Too many failed attempts."])
          /\ UNCHANGED access
     ELSE /\ loginChallenges' = Put(loginChallenges, s, nonce)
          /\ emitted' = Ack(s, [success |-> TRUE, message |-> nonce])
          /\ UNCHANGED <<ipConnectionCounts, loginAttempts>>
  /\ UNCHANGED <<disk, rooms, sessions, clients, globalDebugMode, connected, socketDeviceId,
                 joined, clientKeys, adminCredentials>>

\* socket.on('ADMIN_LOGIN').  An exception of verifyAdmin leaves the handler
\* where it is thrown: nothing is counted, the nonce stays, no answer is
\* sent.  The client record a login creates has no name and no room.
AdminLogin(s, clientHmacResponse) ==
  /\ s \in connected
  /\ lastEvent' = Event("ADMIN_LOGIN", s, clientHmacResponse)
  /\ LET clientIp == IpOf(s)
         attemptData == AttemptData(loginAttempts, clientIp)
         activeNonce == ActiveNonce(loginChallenges, s)
         verified == verifyAdmin(adminCredentials, clientHmacResponse, activeNonce)
     IN IF LockedOut(loginAttempts, clientIp, now)
        THEN /\ emitted' = Ack(s, [success |-> FALSE, message |-> "IP temporarily locked out."])
             /\ UNCHANGED <<access, sessions, clients>>
        ELSE IF verified = "throws"
        THEN /\ emitted' = <<>>
             /\ UNCHANGED <<access, sessions, clients>>
        ELSE IF verified = "true"
        THEN LET cls == IF s \in DOMAIN clients
                        THEN [clients EXCEPT ![s].role = "ADMIN"]
                        ELSE Put(clients, s,
                                 Client(s, socketDeviceId[s], Undefined, "ADMIN", Null))
                 sess == IF socketDeviceId[s] # Null
                         THEN Put(sessions, socketDeviceId[s],
                                  Session("Tournament Admin", "ADMIN", GLOBAL, 0, FALSE))
                         ELSE sessions
             IN /\ loginAttempts' = Remove(loginAttempts, clientIp)
                /\ loginChallenges' = Remove(loginChallenges, s)
                /\ clients' = cls
                /\ sessions' = sess
                /\ emitted' = SocketEmit(s, connected, "ROLE_ASSIGNED", "ADMIN")
                     \o broadcastToAdmins(rooms, sess, cls, globalDebugMode, connected, joined)
                     \o Ack(s, [success |-> TRUE, message |-> Null])
                /\ UNCHANGED ipConnectionCounts
        ELSE LET count == attemptData.count + 1
                 lockoutUntil == IF count >= MAX_LOGIN_FAILURES
                                 THEN now + LOCKOUT_MINUTES
                                 ELSE attemptData.lockoutUntil
             IN /\ loginAttempts' = Put(loginAttempts, clientIp,
                                        [count |-> count, lockoutUntil |-> lockoutUntil])
                /\ loginChallenges' = Remove(loginChallenges, s)
                /\ emitted' = Ack(s, [success |-> FALSE,
                                      message |-> IF count >= MAX_LOGIN_FAILURES
                                                  THEN "Too many attempts. Locked out for 10 minutes."
                                                  ELSE "Invalid Admin Password"])
                /\ UNCHANGED <<ipConnectionCounts, sessions, clients>>
  /\ UNCHANGED <<disk, rooms, globalDebugMode, connected, socketDeviceId, joined, clientKeys,
                 adminCredentials>>

\* ------------------------------------------------------ CHANGE_PASSWORD
\* socket.on('CHANGE_PASSWORD'); salt is the fresh salt of the new hash.
ChangePassword(s, oldPassword, newPassword, salt) ==
  /\ s \in connected
  /\ IF RoleOf(clients, s) # "ADMIN"
     THEN NoEffect
     ELSE IF verifyPasswordPlaintext(adminCredentials, oldPassword)
     THEN /\ adminCredentials' = hashPassword(newPassword, salt)
          /\ emitted' = SocketEmit(s, connected, "PASSWORD_CHANGED_SUCCESS",
                                   "Password updated successfully.")
          /\ lastEvent' = Event("CHANGE_PASSWORD", s, Null)
          /\ UNCHANGED <<access, rooms, sessions, clients, globalDebugMode, connected,
                         socketDeviceId, joined, clientKeys>>
          /\ saveState
     ELSE /\ emitted' = SocketEmit(s, connected, "PASSWORD_CHANGED_FAILED",
                                   "Incorrect current password.")
          /\ lastEvent' = Event("CHANGE_PASSWORD", s, Null)
          /\ UNCHANGED <<access, disk, rooms, sessions, clients, globalDebugMode, connected,
                         socketDeviceId, joined, clientKeys, adminCredentials>>

\* state.rooms[roomId].gameState for a roomId that names no room ('GLOBAL', or
\* a deleted room): the TypeError leaves the handler, where nothing had been
\* changed or sent yet, and there is nothing that catches it.
Thrown(event, s) ==
  /\ emitted' = <<>>
  /\ lastEvent' = Event("uncaughtException", s, event)
  /\ UNCHANGED <<access, disk, clientKeys, adminCredentials, rooms, sessions, clients,
                 globalDebugMode, connected, socketDeviceId, joined>>

\* -------------------------------------------------------------- game logic
\* The state START_DRAFT leaves: the shuffled deck, one card per slot index.
StartedState(gs, rnd) ==
  LET shuffledRoles == shuffle(INITIAL_DECK, rnd)
      newSlots == [index \in DOMAIN shuffledRoles |-> shuffledRoles[index]]
  IN [gs EXCEPT !.status = "IN_PROGRESS",
                !.slots = newSlots,
                !.revealedSlots = <<>>,
                !.currentTurn = 1,
                !.results = EmptyMap,
                !.isTrayUnlocked = FALSE,
                !.isCardRevealed = FALSE,
                !.draftStartTime = "Date.now()"]

StartAllowedUnlocked(gs) == TRUE

\* The guard of START_DRAFT on the room's state.
StartAllowed(gs) == gs.areRolesLocked

\* socket.on('START_DRAFT'); rnd are the draws of the shuffle.
StartDraft(s, rnd) ==
  /\ s \in connected
  /\ LET roomId == RoomOf(clients, s)
     IN IF ~IsJudgeOrAdmin(clients, s) \/ roomId = Null
        THEN NoEffect
        ELSE IF roomId \notin DOMAIN rooms
        THEN Thrown("START_DRAFT", s)
        ELSE IF ~StartAllowed(rooms[roomId])
        THEN NoEffect
        ELSE /\ rooms' = [rooms EXCEPT ![roomId] = StartedState(@, rnd)]
             /\ emitted' = broadcastState(roomId, rooms', sessions, clients, globalDebugMode,
                                          connected, joined)
             /\ lastEvent' = Event("START_DRAFT", s, Null)
             /\ UNCHANGED <<access, clientKeys, adminCredentials, sessions, clients, globalDebugMode, connected,
                            socketDeviceId, joined>>
             /\ saveState

\* socket.on('UNLOCK_TRAY')
UnlockTray(s) ==
  /\ s \in connected
  /\ LET roomId == RoomOf(clients, s)
     IN IF ~IsJudgeOrAdmin(clients, s) \/ roomId = Null
        THEN NoEffect
        ELSE IF roomId \notin DOMAIN rooms
        THEN Thrown("UNLOCK_TRAY", s)
        ELSE IF rooms[roomId].status # "IN_PROGRESS"
        THEN NoEffect
        ELSE /\ rooms' = [rooms EXCEPT ![roomId].isTrayUnlocked = TRUE]
             /\ emitted' = broadcastState(roomId, rooms', sessions, clients, globalDebugMode,
                                          connected, joined)
                           \o IoToEmit(roomId, connected, joined, "CLEAR_STREAM", Null)
             /\ lastEvent' = Event("UNLOCK_TRAY", s, Null)
             /\ UNCHANGED <<access, disk, clientKeys, adminCredentials, sessions, clients, globalDebugMode, connected,
                            socketDeviceId, joined>>

\* gs.slots[slotIndex]
SlotRole(gs, slotIndex) ==
  IF slotIndex \in DOMAIN gs.slots THEN gs.slots[slotIndex] ELSE Undefined

\* gs.revealedSlots.includes(slotIndex)
Includes(seq, x) == \E i \in 1..Len(seq) : seq[i] = x

\* The turn advanced with > in place of >=.
AdvanceTurnLate(gs) ==
  IF gs.currentTurn > 10 THEN [gs EXCEPT !.status = "COMPLETED"]
  ELSE [gs EXCEPT !.currentTurn = @ + 1]

\* if (gs.currentTurn >= 10) gs.status = 'COMPLETED'; else gs.currentTurn++;
AdvanceTurn(gs) ==
  IF gs.currentTurn >= 10 THEN [gs EXCEPT !.status = "COMPLETED"]
  ELSE [gs EXCEPT !.currentTurn = @ + 1]

\* The state a pick of slotIndex leaves (PICK_CARD and FORCE_PICK alike).
PickedState(gs, slotIndex) ==
  AdvanceTurn([gs EXCEPT
     !.revealedSlots = Append(@, slotIndex),
     !.results = Put(@, gs.currentTurn, [role |-> SlotRole(gs, slotIndex),
                                         slotIndex |-> slotIndex]),
     !.isTrayUnlocked = FALSE,
     !.isCardRevealed = TRUE])

\* The guard without the check of the tray.
PickAllowedTrayIgnored(gs, slotIndex) ==
  /\ gs.status = "IN_PROGRESS"
  /\ ~Includes(gs.revealedSlots, slotIndex)

\* The guard of PICK_CARD on the room's state.
PickAllowed(gs, slotIndex) ==
  /\ gs.status = "IN_PROGRESS"
  /\ gs.isTrayUnlocked
  /\ ~Includes(gs.revealedSlots, slotIndex)

\* What a PICK_CARD of slotIndex by socket s emits, the room being in gs.
PickCardEmits(s, roomId, gs, slotIndex) ==
  LET role == SlotRole(gs, slotIndex)
      rms == [rooms EXCEPT ![roomId] = PickedState(gs, slotIndex)]
  IN SocketEmit(s, connected, "PRIVATE_ROLE_REVEAL", [role |-> role, slotIndex |-> slotIndex])
     \o IoToEmit(roomId, connected, joined, "CARD_REVEALED",
                 [seat |-> gs.currentTurn, role |-> role, cardIndex |-> slotIndex])
     \o broadcastState(roomId, rms, sessions, clients, globalDebugMode, connected, joined)

\* socket.on('PICK_CARD')
PickCard(s, slotIndex) ==
  /\ s \in connected
  /\ LET roomId == RoomOf(clients, s)
     IN IF ~validateNumber(slotIndex, 0, 9) \/ roomId = Null
        THEN NoEffect
        ELSE IF roomId \notin DOMAIN rooms
        THEN Thrown("PICK_CARD", s)
        ELSE IF ~PickAllowed(rooms[roomId], slotIndex)
        THEN NoEffect
        ELSE /\ rooms' = [rooms EXCEPT ![roomId] = PickedState(@, slotIndex)]
             /\ emitted' = PickCardEmits(s, roomId, rooms[roomId], slotIndex)
             /\ lastEvent' = Event("PICK_CARD", s, slotIndex)
             /\ UNCHANGED <<access, clientKeys, adminCredentials, sessions, clients, globalDebugMode, connected,
                            socketDeviceId, joined>>
             /\ saveState

\* The slots without the filter on revealedSlots.
AllSlots(gs) == [i \in 1..10 |-> i - 1]

\* allSlots.filter(s => !gs.revealedSlots.includes(s)), in order
AvailableSlots(gs) ==
  SelectSeq([i \in 1..10 |-> i - 1], LAMBDA x : ~Includes(gs.revealedSlots, x))

\* The guard without the check of the tray.
ForceAllowedTrayIgnored(gs) ==
  /\ gs.status = "IN_PROGRESS"
  /\ ~gs.isCardRevealed

\* The guard of FORCE_PICK on the room's state.
ForceAllowed(gs) ==
  /\ gs.status = "IN_PROGRESS"
  /\ gs.isTrayUnlocked
  /\ ~gs.isCardRevealed

\* The sockets FORCE_PICK reveals the role to.
ForceTargets(roomId, gs) ==
  {c \in DOMAIN clients :
     /\ clients[c].roomId = roomId
     /\ clients[c].role = "PLAYER"
     /\ gs.settings.singleMode =>
          /\ clients[c].deviceId \in DOMAIN sessions
          /\ sessions[clients[c].deviceId].assignedSeat = gs.currentTurn}

\* What a FORCE_PICK drawing slot randomSlotIndex emits, the room being in gs.
ForcePickEmits(roomId, gs, randomSlotIndex) ==
  LET role == SlotRole(gs, randomSlotIndex)
      rms == [rooms EXCEPT ![roomId] = PickedState(gs, randomSlotIndex)]
  IN EmitAll(ForceTargets(roomId, gs) \cap connected, "PRIVATE_ROLE_REVEAL",
             [role |-> role, slotIndex |-> randomSlotIndex])
     \o IoToEmit(roomId, connected, joined, "CARD_REVEALED",
                 [seat |-> gs.currentTurn, role |-> role, cardIndex |-> randomSlotIndex])
     \o broadcastState(roomId, rms, sessions, clients, globalDebugMode, connected, joined)

\* socket.on('FORCE_PICK'); k / RandomLevels is the value Math.random() returned.
ForcePick(s, k) ==
  /\ s \in connected
  /\ LET roomId == RoomOf(clients, s)
     IN IF ~IsJudgeOrAdmin(clients, s) \/ roomId = Null
        THEN NoEffect
        ELSE IF roomId \notin DOMAIN rooms
        THEN Thrown("FORCE_PICK", s)
        ELSE IF ~ForceAllowed(rooms[roomId]) \/ Len(AvailableSlots(rooms[roomId])) = 0
        THEN NoEffect
        ELSE
          LET gs == rooms[roomId]
              availableSlots == AvailableSlots(gs)
              randomSlotIndex == availableSlots[RandomIndex(k, Len(availableSlots)) + 1]
          IN /\ rooms' = [rooms EXCEPT ![roomId] = PickedState(gs, randomSlotIndex)]
             /\ emitted' = ForcePickEmits(roomId, gs, randomSlotIndex)
             /\ lastEvent' = Event("FORCE_PICK", s, randomSlotIndex)
             /\ UNCHANGED <<access, clientKeys, adminCredentials, sessions, clients, globalDebugMode, connected,
                            socketDeviceId, joined>>
             /\ saveState

\* The state RESET_DRAFT leaves, before the counts are refreshed.
ResetState(gs) ==
  [getInitialGameState EXCEPT !.areRolesLocked = gs.areRolesLocked,
                              !.isDebugMode = gs.isDebugMode,
                              !.settings.singleMode = gs.settings.singleMode]

\* socket.on('RESET_DRAFT')
ResetDraft(s) ==
  /\ s \in connected
  /\ LET roomId == RoomOf(clients, s)
     IN IF ~IsJudgeOrAdmin(clients, s) \/ roomId = Null
        THEN NoEffect
        ELSE IF roomId \notin DOMAIN rooms
        THEN Thrown("RESET_DRAFT", s)
        ELSE
          LET rms0 == [rooms EXCEPT ![roomId] = ResetState(@)]
              rms == CountedRooms(roomId, rms0, clients)
          IN /\ rooms' = rms
             /\ emitted' = updateClientCounts(roomId, rms0, sessions, clients, globalDebugMode,
                                              connected, joined)
                  \o IoToEmit(roomId, connected, joined, "STATE_UPDATE", rms[roomId])
             /\ lastEvent' = Event("RESET_DRAFT", s, Null)
             /\ UNCHANGED <<access, disk, clientKeys, adminCredentials, sessions, clients, globalDebugMode, connected,
                            socketDeviceId, joined>>

RevealLeftOpen(gs) == gs

\* gameState.isCardRevealed = false
RevealClosed(gs) == [gs EXCEPT !.isCardRevealed = FALSE]

\* socket.on('MEMORIZED_ROLE')
MemorizedRole(s) ==
  /\ s \in connected
  /\ LET roomId == RoomOf(clients, s)
     IN IF roomId = Null \/ roomId \notin DOMAIN rooms
        THEN NoEffect
        ELSE /\ rooms' = [rooms EXCEPT ![roomId] = RevealClosed(@)]
             /\ emitted' = broadcastState(roomId, rooms', sessions, clients, globalDebugMode,
                                          connected, joined)
                  \o IoToEmit(roomId, connected, joined, "CLEAR_STREAM", Null)
                  \o IoToEmit(roomId, connected, joined, "CLOSE_PLAYER_REVEAL", Null)
             /\ lastEvent' = Event("MEMORIZED_ROLE", s, Null)
             /\ UNCHANGED <<access, clientKeys, adminCredentials, sessions, clients, globalDebugMode, connected,
                            socketDeviceId, joined>>
             /\ saveState

\* ------------------------------------- key exchange, router, rate limiter
MAX_MESSAGES_PER_SECOND == 20

\* The packets followed per connection and window.
MaxPackets == 22

\* The keys a key exchange can yield (the server's ECDH key pair is fresh).
Keys == {"k1", "k2"}

\* The client's public keys: a point of the curve, and bytes that are none.
PublicKeys == {"04c1", "junk"}

\* serverECDH.computeSecret throws on a key that is no point of the curve.
computeSecretThrows(clientPublicKeyHex) == clientPublicKeyHex = "junk"

\* encryptPayload: iv:ciphertext:hmac, the HMAC taken under the key.
encryptPayload(payloadArgs, aesKey) == [sealedWith |-> aesKey, args |-> payloadArgs]

\* decryptPayload: the arguments when the HMAC verifies under the key, null
\* (ok false) otherwise.
decryptPayload(encrypted, aesKey) ==
  IF encrypted.sealedWith = aesKey
  THEN [ok |-> TRUE, args |-> encrypted.args]
  ELSE [ok |-> FALSE, args |-> Null]

\* The wrapper of an ENCRYPTED_MESSAGE packet.
Wrapper(event, aesKey, arg) == [event |-> event, payload |-> encryptPayload(arg, aesKey)]

\* socket.on('KEY_EXCHANGE'); aesKey is the digest of the shared secret.
KeyExchange(s, clientPublicKeyHex, aesKey) ==
  /\ s \in connected
  /\ IF computeSecretThrows(clientPublicKeyHex)
     THEN /\ emitted' = Ack(s, [success |-> FALSE, serverPublicKey |-> Null])
          /\ lastEvent' = Event("KEY_EXCHANGE", s, clientPublicKeyHex)
          /\ UNCHANGED <<access, disk, rooms, sessions, clients, globalDebugMode, connected,
                         socketDeviceId, joined, clientKeys, adminCredentials>>
     ELSE /\ clientKeys' = Put(clientKeys, s, aesKey)
          /\ emitted' = Ack(s, [success |-> TRUE, serverPublicKey |-> "04s"])
          /\ lastEvent' = Event("KEY_EXCHANGE", s, clientPublicKeyHex)
          /\ UNCHANGED <<access, disk, rooms, sessions, clients, globalDebugMode, connected,
                         socketDeviceId, joined, adminCredentials>>

\* The listeners socket.on registered for an event, called with its argument.
Listeners(s, event, arg) ==
  CASE event = "IDENTIFY" -> Identify(s, arg)
    [] event = "UNLOCK_TRAY" -> UnlockTray(s)
    [] event = "START_DRAFT" -> \E rnd \in Draws(1) : StartDraft(s, rnd)
    [] event = "KEY_EXCHANGE" -> \E k \in Keys : KeyExchange(s, arg, k)
    [] OTHER -> NoEffect

\* socket.on('ENCRYPTED_MESSAGE'): the decryption router.
EncryptedMessage(s, wrapper) ==
  IF s \notin DOMAIN clientKeys
  THEN NoEffect /\ lastPacket' = [socket |-> s, event |-> "ENCRYPTED_MESSAGE", verdict |-> "no key"]
  ELSE LET decryptedArgs == decryptPayload(wrapper.payload, clientKeys[s])
       IN IF ~decryptedArgs.ok
          THEN /\ NoEffect
               /\ lastPacket' = [socket |-> s, event |-> "ENCRYPTED_MESSAGE",
                                 verdict |-> "not verified"]
          ELSE /\ Listeners(s, wrapper.event, decryptedArgs.args)
               /\ lastPacket' = [socket |-> s, event |-> "ENCRYPTED_MESSAGE",
                                 verdict |-> "decrypted"]

OverLimitNever(count) == FALSE

\* messageCount > MAX_MESSAGES_PER_SECOND
OverLimit(count) == count > MAX_MESSAGES_PER_SECOND

\* A packet of a connection: socket.use counts it and drops it over the
\* limit; otherwise the listeners of its event are called.
Packet(s, event, arg) ==
  /\ s \in connected
  /\ messageCount[s] < MaxPackets
  /\ messageCount' = [messageCount EXCEPT ![s] = @ + 1]
  /\ IF OverLimit(messageCount'[s])
     THEN /\ NoEffect
          /\ lastPacket' = [socket |-> s, event |-> event, verdict |-> "rate limit"]
     ELSE IF event = "ENCRYPTED_MESSAGE"
     THEN EncryptedMessage(s, arg)
     ELSE /\ Listeners(s, event, arg)
          /\ lastPacket' = [socket |-> s, event |-> event, verdict |-> "plaintext"]
  /\ UNCHANGED run

\* setInterval(() => { messageCount = 0 }, 1000)
ThrottleTimer(s) ==
  /\ messageCount' = [messageCount EXCEPT ![s] = 0]
  /\ UNCHANGED <<state, lastPacket, run>>

\* io.on('connection') with the counter of the new connection.
Connect(s) ==
  /\ Connection(s)
  /\ messageCount' = [messageCount EXCEPT ![s] = 0]
  /\ UNCHANGED <<lastPacket, run>>

\* ------------------------------------------------------------ event inputs
\* The token each socket presents in IDENTIFY (Null: none, or malformed).
TokenOf(s) == IF s = "s1" THEN "dA" ELSE IF s = "s2" THEN "dJ" ELSE "dP"
RoomCodes == {"A", "a"}
AssignableRoles == {"PLAYER", "UNASSIGNED", "ADMIN"}

\* A packet that the rate limiter passes and that reaches its handler as it
\* is: the handler runs, the limiter's counter staying within its budget
\* (the counter and the router are followed by Packet below).
Within(H) == UNCHANGED <<wire, run>> /\ H

\* Connections come and go, identify and join.
Lobby(S) ==
  \/ \E s \in S : Within(Connection(s))
  \/ \E s \in S : Within(Disconnect(s))
  \/ \E s \in S : \E d \in {TokenOf(s), Null} : Within(Identify(s, d))

\* The events of the admin dashboard, sent by Adm about the sockets S.
Dashboard(Adm, S) ==
  \/ \E s \in Adm, c \in RoomCodes : Within(CreateRoom(s, c))
  \/ \E s \in Adm, r \in RoomIds : Within(DeleteRoom(s, r))
  \/ \E s \in Adm, c \in S, r \in RoomIds : Within(VerifyStream(s, c, r))
  \/ \E s \in Adm, c \in S, role \in AssignableRoles : Within(AssignRole(s, c, role))
  \/ \E s \in Adm, c \in S : Within(ResetClient(s, c))
  \/ \E s \in Adm, r \in RoomIds, b \in BOOLEAN : Within(ToggleRoleLock(s, r, b))
  \/ \E s \in Adm, b \in BOOLEAN : Within(ToggleGlobalDebug(s, b))

\* The events of a table: PICK_CARD with a number of picks, shuffles with
\* draws of draws, FORCE_PICK with a draw of forces.
Table(S, picks, draws, forces) ==
  \/ \E s \in S, rnd \in draws : Within(StartDraft(s, rnd))
  \/ \E s \in S : Within(UnlockTray(s))
  \/ \E s \in S, i \in picks : Within(PickCard(s, i))
  \/ \E s \in S, k \in forces : Within(ForcePick(s, k))
  \/ \E s \in S : Within(ResetDraft(s))
  \/ \E s \in S : Within(MemorizedRole(s))

\* Spec: the admin's socket and one socket at the table, every event.
Next ==
  \/ Lobby({"s1", "s2"})
  \/ \E n \in Names, c \in RoomCodes : Within(JoinRoom("s2", n, c))
  \/ Dashboard({"s1"}, {"s2"})
  \/ Table({"s2"}, {0, 10}, Draws(ShuffleDepth), {0})

Spec == Init /\ [][Next]_vars

\* SpecDraft: a locked table with the judge's and the player's sockets; the
\* picks include 3.5, the forced pick draws the highest value.
InitDraft ==
  /\ rooms = ("A" :> [getInitialGameState EXCEPT !.areRolesLocked = TRUE])
  /\ sessions = ("dJ" :> Session("Ann", "JUDGE", "A", 0, FALSE))
                @@ ("dP" :> Session("Ann", "PLAYER", "A", 0, FALSE))
  /\ clients = EmptyMap
  /\ globalDebugMode = FALSE
  /\ connected = {}
  /\ socketDeviceId = [s \in SocketIds |-> Null]
  /\ joined = [s \in SocketIds |-> {}]
  /\ emitted = <<>>
  /\ lastEvent = Event("boot", Null, Null)
  /\ clientKeys = EmptyMap
  /\ adminCredentials = hashPassword("pw0", "salt0")
  /\ messageCount = [s \in SocketIds |-> 0]
  /\ lastPacket = [socket |-> Null, event |-> Null, verdict |-> Null]
  /\ ipConnectionCounts = EmptyMap
  /\ loginAttempts = EmptyMap
  /\ loginChallenges = EmptyMap
  /\ disk = NoFiles
  /\ now = 0
  /\ saving = 0
  /\ rsEngine = FALSE

DraftPicks == {0, HalfBase + 3, 10}

NextDraft ==
  \/ Lobby({"s2", "s3"})
  \/ Table({"s2", "s3"}, DraftPicks, Draws(1), {RandomLevels - 1})

SpecDraft == InitDraft /\ [][NextDraft]_vars

\* SpecSeats: the admin, the judge and the player of a table in single mode.
\* Every admin event is sent by the admin and by the player, every
\* draft-control event by the judge and by the player, so that each is
\* received from senders with and without the role it requires.
SeatSockets == {"s1", "s2", "s3"}
SeatNumbers == {0, 2}
Passwords == {"pw0", "bad"}

\* The admin-only events.
AdminEvents(S) ==
  \/ \E s \in S : Within(CreateRoom(s, "A"))
  \/ \E s \in S : Within(DeleteRoom(s, "A"))
  \/ \E s \in S, c \in {"s3"} : Within(VerifyStream(s, c, "A"))
  \/ \E s \in S, c \in {"s3"}, role \in {"PLAYER"} : Within(AssignRole(s, c, role))
  \/ \E s \in S, c \in {"s3"} : Within(ResetClient(s, c))
  \/ \E s \in S, b \in BOOLEAN : Within(ToggleRoleLock(s, "A", b))
  \/ \E s \in S, b \in BOOLEAN : Within(ToggleGlobalDebug(s, b))
  \/ \E s \in S, b \in BOOLEAN : Within(ToggleSingleMode(s, "A", b))
  \/ \E s \in S : Within(SpawnPhantoms(s, "A"))
  \/ \E s \in S, n \in SeatNumbers : Within(AssignSeat(s, "dP", n))
  \/ \E s \in S, old \in Passwords : Within(ChangePassword(s, old, "pw1", "salt1"))

\* The draft-control events and PICK_CARD.
DraftControl(S, draws) ==
  \/ \E s \in S, rnd \in draws : Within(StartDraft(s, rnd))
  \/ \E s \in S : Within(UnlockTray(s))
  \/ \E s \in S : Within(PickCard(s, 0))
  \/ \E s \in S : Within(ForcePick(s, 0))
  \/ \E s \in S : Within(ResetDraft(s))

NextSeats ==
  \/ \E s \in SeatSockets : Within(Connection(s))
  \/ \E s \in SeatSockets : Within(Identify(s, TokenOf(s)))
  \/ AdminEvents({"s1", "s3"})
  \/ DraftControl({"s2", "s3"}, Draws(1))

SpecSeats == Init /\ [][NextSeats]_vars

\* SpecWire: the packets of the judge's connection, in plaintext and in
\* ENCRYPTED_MESSAGE wrappers sealed with either key, the key exchange and
\* the timer of the rate limiter.
NextWire ==
  \/ Connect("s2")
  \/ Within(Disconnect("s2"))
  \/ ThrottleTimer("s2")
  \/ \E pub \in PublicKeys : Packet("s2", "KEY_EXCHANGE", pub)
  \/ \E d \in {"dJ", Null} : Packet("s2", "IDENTIFY", d)
  \/ \E e \in {"START_DRAFT", "UNLOCK_TRAY"} : Packet("s2", e, Null)
  \/ \E k \in Keys, d \in {"dJ", Null} :
       Packet("s2", "ENCRYPTED_MESSAGE", Wrapper("IDENTIFY", k, d))
  \/ \E k \in Keys, e \in {"START_DRAFT", "UNLOCK_TRAY"} :
       Packet("s2", "ENCRYPTED_MESSAGE", Wrapper(e, k, Null))

SpecWire == InitDraft /\ [][NextWire]_vars

\* ------------------------------------------------------------- properties
PickEvents == {"PICK_CARD", "FORCE_PICK"}

\* The room of the sender of the event of this step.
SenderRoom == RoomOf(clients, lastEvent'.socket)

\* The rooms that exist before and after a step.
KeptRooms == DOMAIN rooms \cap DOMAIN rooms'

\* The deck as a multiset.
DeckCount == [role \in CardRoles |->
                IF role = "Citizen" THEN 6 ELSE IF role = "Mafia" THEN 2 ELSE 1]

\* A mapping with the keys 0..9 whose values are the deck.
IsDeck(slots) ==
  /\ DOMAIN slots = 0..9
  /\ \A role \in CardRoles :
       Cardinality({i \in 0..9 : slots[i] = role}) = DeckCount[role]

NoDuplicates(seq) == \A i, j \in 1..Len(seq) : i # j => seq[i] # seq[j]

\* C1: a successful START_DRAFT leaves the room IN_PROGRESS with slots a
\* mapping on 0..9 whose values are 6 Citizen, 1 Sheriff, 2 Mafia and 1 Don;
\* the slots of a room change in no step other than a START_DRAFT or a
\* RESET_DRAFT, so a room that is not PENDING holds such a mapping.
C1_DeckDealt ==
  /\ [](\A r \in DOMAIN rooms : rooms[r].status # "PENDING" => IsDeck(rooms[r].slots))
  /\ [][/\ lastEvent'.type = "START_DRAFT" =>
             /\ rooms'[SenderRoom].status = "IN_PROGRESS"
             /\ IsDeck(rooms'[SenderRoom].slots)
        /\ \A r \in KeptRooms :
             rooms'[r].slots # rooms[r].slots =>
               lastEvent'.type \in {"START_DRAFT", "RESET_DRAFT"}]_vars

\* A draft was started with a shuffle that moved the Don to slot 4.
C1_Witness ==
  /\ lastEvent.type = "START_DRAFT"
  /\ "A" \in DOMAIN rooms
  /\ rooms["A"].status = "IN_PROGRESS"
  /\ rooms["A"].slots[4] = "Don"

\* C2: with N the number of picks of the draft (the length of revealedSlots),
\* currentTurn is in 1..10; an IN_PROGRESS room has N < 10 and currentTurn
\* N + 1; a room is COMPLETED exactly when N = 10, its currentTurn being 10;
\* a PENDING room has no pick and currentTurn 1.
C2_TurnTracksPicks ==
  \A r \in DOMAIN rooms :
    LET gs == rooms[r]
        N == Len(gs.revealedSlots)
    IN /\ gs.currentTurn \in 1..10
       /\ gs.status \in {"PENDING", "IN_PROGRESS", "COMPLETED"}
       /\ gs.status = "IN_PROGRESS" => N < 10 /\ gs.currentTurn = N + 1
       /\ gs.status = "COMPLETED" <=> N = 10
       /\ gs.status = "COMPLETED" => gs.currentTurn = 10
       /\ gs.status = "PENDING" => N = 0 /\ gs.currentTurn = 1

\* The tenth pick, by a player's PICK_CARD, completed the draft.
C2_Witness ==
  /\ lastEvent.type = "PICK_CARD"
  /\ rooms["A"].status = "COMPLETED"
  /\ Len(rooms["A"].revealedSlots) = 10

\* C3: revealedSlots has no duplicates; a successful pick appends the picked
\* slot to it and nothing else; any other change of it is the emptying by a
\* START_DRAFT or a RESET_DRAFT, and it is empty after a START_DRAFT.
C3_RevealedSlots ==
  /\ [](\A r \in DOMAIN rooms : NoDuplicates(rooms[r].revealedSlots))
  /\ [][\A r \in KeptRooms :
          LET before == rooms[r].revealedSlots
              after == rooms'[r].revealedSlots
              picked == lastEvent'.type \in PickEvents /\ r = SenderRoom
          IN /\ picked => after = Append(before, lastEvent'.arg)
             /\ after # before =>
                  \/ picked
                  \/ after = <<>> /\ lastEvent'.type \in {"START_DRAFT", "RESET_DRAFT"}
             /\ lastEvent'.type = "START_DRAFT" /\ r = SenderRoom => after = <<>>]_vars

\* A forced pick followed other picks, the player's pick of slot 0 among them.
C3_Witness ==
  /\ lastEvent.type = "FORCE_PICK"
  /\ Len(rooms["A"].revealedSlots) >= 3
  /\ Includes(rooms["A"].revealedSlots, 0)

\* C4: every entry results[t] is {role: gs.slots[s], slotIndex: s} for the
\* slot s picked at turn t, the PRIVATE_ROLE_REVEAL of a pick carries that
\* entry, and the results of a COMPLETED draft have the seats 1..10 with the
\* roles 6 Citizen, 1 Sheriff, 2 Mafia and 1 Don.
C4_ResultsAreDeck ==
  /\ \A r \in DOMAIN rooms :
       LET gs == rooms[r]
       IN /\ \A t \in DOMAIN gs.results :
               gs.results[t].role = SlotRole(gs, gs.results[t].slotIndex)
          /\ gs.status = "COMPLETED" =>
               /\ DOMAIN gs.results = 1..10
               /\ \A role \in CardRoles :
                    Cardinality({t \in 1..10 : gs.results[t].role = role}) = DeckCount[role]
  /\ lastEvent.type \in PickEvents =>
       LET gs == rooms[RoomOf(clients, lastEvent.socket)]
       IN \A i \in 1..Len(emitted) :
            emitted[i].event = "PRIVATE_ROLE_REVEAL" =>
              PayloadOf(emitted[i]) = gs.results[Len(gs.revealedSlots)]

\* C5: a PICK_CARD received while the tray is locked, or for a slot that is
\* already revealed, changes no room and emits nothing (no PRIVATE_ROLE_REVEAL,
\* no CARD_REVEALED).
C5_RejectedPickIsNoOp ==
  [][\A s \in SocketIds, i \in DraftPicks :
       LET roomId == RoomOf(clients, s)
       IN (/\ roomId \in DOMAIN rooms
           /\ \/ ~rooms[roomId].isTrayUnlocked
              \/ Includes(rooms[roomId].revealedSlots, i)
           /\ PickCard(s, i))
          => UNCHANGED <<rooms, emitted>>]_vars

\* The tray is unlocked for a later turn and slot 0 is already revealed: a
\* PICK_CARD of slot 0 by the player is the rejected case.
C5_Witness ==
  /\ "s3" \in DOMAIN clients
  /\ clients["s3"].roomId = "A"
  /\ rooms["A"].status = "IN_PROGRESS"
  /\ rooms["A"].isTrayUnlocked
  /\ Includes(rooms["A"].revealedSlots, 0)

\* The messages of a sequence that go to socket c.
MessagesTo(c, msgs) == SelectSeq(msgs, LAMBDA m : m.to = c)

\* C6: while the debug mode is off, a STATE_UPDATE about a room that has a
\* slot mapping carries the placeholder in place of the mapping, and every
\* room of a ROOMS_UPDATE carries the placeholder.
C6_SlotsNeverSent ==
  ~globalDebugMode =>
    \A i \in 1..Len(emitted) :
      LET m == emitted[i]
      IN /\ m.event = "STATE_UPDATE" =>
              (PayloadOf(m).slots = HIDDEN \/ PayloadOf(m).slots = EmptyMap)
         /\ m.event = "ROOMS_UPDATE" =>
              \A r \in DOMAIN PayloadOf(m) : PayloadOf(m)[r].gameState.slots = HIDDEN

\* C7: while the debug mode is off, the messages a pick sends to a PLAYER or
\* UNASSIGNED connection other than the sockets the role is privately revealed
\* to are the same whatever role lies in the picked slot.
C7_NoRoleDependence ==
  [][(lastEvent'.type \in PickEvents /\ ~globalDebugMode) =>
       LET s == lastEvent'.socket
           i == lastEvent'.arg
           roomId == SenderRoom
           gs == rooms[roomId]
           manual == lastEvent'.type = "PICK_CARD"
           recipients == IF manual THEN {s} ELSE ForceTargets(roomId, gs)
       IN i \in DOMAIN gs.slots =>
            \A role \in CardRoles, c \in DOMAIN clients :
              LET other == [gs EXCEPT !.slots[i] = role]
                  varied == IF manual THEN PickCardEmits(s, roomId, other, i)
                            ELSE ForcePickEmits(roomId, other, i)
              IN (clients[c].role \in {"PLAYER", "UNASSIGNED"} /\ c \notin recipients)
                   => MessagesTo(c, emitted') = MessagesTo(c, varied)]_vars

\* C8: a pick, manual or forced, that changes a room finds the room
\* IN_PROGRESS with isCardRevealed false.
C8_PickNeedsCardCleared ==
  [][(lastEvent'.type \in PickEvents /\ rooms' # rooms) =>
       /\ rooms[SenderRoom].status = "IN_PROGRESS"
       /\ ~rooms[SenderRoom].isCardRevealed]_vars

\* C9: a step that adds to revealedSlots adds one slot, finds the tray
\* unlocked and leaves it locked; the tray goes from locked to unlocked in an
\* UNLOCK_TRAY only; a FORCE_PICK received while the tray is locked or the
\* card is displayed (as after a player's PICK_CARD) changes no room and
\* emits nothing.
C9_OnePickPerUnlock ==
  [][/\ \A r \in KeptRooms :
          LET a == rooms[r]
              b == rooms'[r]
          IN /\ Len(b.revealedSlots) > Len(a.revealedSlots) =>
                  /\ Len(b.revealedSlots) = Len(a.revealedSlots) + 1
                  /\ a.isTrayUnlocked
                  /\ ~b.isTrayUnlocked
             /\ (~a.isTrayUnlocked /\ b.isTrayUnlocked) => lastEvent'.type = "UNLOCK_TRAY"
     /\ \A s \in SocketIds, k \in 0..(RandomLevels - 1) :
          LET roomId == RoomOf(clients, s)
          IN (/\ roomId \in DOMAIN rooms
              /\ ~rooms[roomId].isTrayUnlocked \/ rooms[roomId].isCardRevealed
              /\ ForcePick(s, k))
             => UNCHANGED <<rooms, emitted>>]_vars

\* The player's PICK_CARD has just taken the turn's pick and the judge is in
\* the room: the judge's FORCE_PICK is now the rejected case.
C9_Witness ==
  /\ lastEvent.type = "PICK_CARD"
  /\ lastEvent.socket = "s3"
  /\ "s2" \in DOMAIN clients
  /\ clients["s2"].role = "JUDGE"
  /\ clients["s2"].roomId = "A"
  /\ rooms["A"].status = "IN_PROGRESS"
  /\ ~rooms["A"].isTrayUnlocked
  /\ rooms["A"].isCardRevealed

\* C10: the status of a room changes only from PENDING to IN_PROGRESS by a
\* START_DRAFT, from IN_PROGRESS to COMPLETED by the tenth pick, and from
\* IN_PROGRESS or COMPLETED to PENDING by a RESET_DRAFT.
C10_StatusTransitions ==
  [][\A r \in KeptRooms :
       LET a == rooms[r].status
           b == rooms'[r].status
       IN a # b =>
            \/ a = "PENDING" /\ b = "IN_PROGRESS" /\ lastEvent'.type = "START_DRAFT"
            \/ /\ a = "IN_PROGRESS" /\ b = "COMPLETED"
               /\ lastEvent'.type \in PickEvents
               /\ Len(rooms'[r].revealedSlots) = 10
            \/ /\ a \in {"IN_PROGRESS", "COMPLETED"} /\ b = "PENDING"
               /\ lastEvent'.type = "RESET_DRAFT"]_vars

\* C11: a START_DRAFT takes effect only when its sender is JUDGE or ADMIN and
\* the sender's room has areRolesLocked; it then leaves the room IN_PROGRESS
\* with currentTurn 1, revealedSlots and results empty, the tray locked, no
\* card revealed and draftStartTime recorded; a START_DRAFT received
\* otherwise leaves every room as it is.
C11_StartDraftGuarded ==
  [][/\ lastEvent'.type = "START_DRAFT" =>
          /\ IsJudgeOrAdmin(clients, lastEvent'.socket)
          /\ SenderRoom \in DOMAIN rooms
          /\ rooms[SenderRoom].areRolesLocked
          /\ LET gs == rooms'[SenderRoom]
             IN /\ gs.status = "IN_PROGRESS"
                /\ gs.currentTurn = 1
                /\ gs.revealedSlots = <<>>
                /\ gs.results = EmptyMap
                /\ ~gs.isTrayUnlocked
                /\ ~gs.isCardRevealed
                /\ gs.draftStartTime # Null
     /\ \A s \in SocketIds, rnd \in Draws(ShuffleDepth) :
          (/\ StartDraft(s, rnd)
           /\ \/ ~IsJudgeOrAdmin(clients, s)
              \/ RoomOf(clients, s) \notin DOMAIN rooms
              \/ ~rooms[RoomOf(clients, s)].areRolesLocked)
          => UNCHANGED rooms]_vars

\* The judge started the draft of a room whose earlier draft had picks: the
\* room is IN_PROGRESS at turn 1 with nothing revealed.
C11_Witness ==
  /\ lastEvent.type = "START_DRAFT"
  /\ RoleOf(clients, lastEvent.socket) = "JUDGE"
  /\ rooms["A"].areRolesLocked
  /\ rooms["A"].status = "IN_PROGRESS"
  /\ rooms["A"].currentTurn = 1
  /\ rooms["A"].draftStartTime # Null

\* C12: a TOGGLE_ROLE_LOCK changes areRolesLocked of a room only when its
\* sender is ADMIN and the room's status is PENDING: while the room is
\* IN_PROGRESS or COMPLETED the toggle is rejected.
C12_LockOnlyWhilePending ==
  [][\A r \in KeptRooms :
       (/\ lastEvent'.type = "TOGGLE_ROLE_LOCK"
        /\ rooms'[r].areRolesLocked # rooms[r].areRolesLocked)
       => /\ RoleOf(clients, lastEvent'.socket) = "ADMIN"
          /\ rooms[r].status = "PENDING"]_vars

\* The seats of 1..10 that a PLAYER session of the room holds.
SeatsHeld(r) ==
  {n \in 1..10 : \E d \in DOMAIN sessions :
     /\ sessions[d].roomId = r
     /\ sessions[d].role = "PLAYER"
     /\ sessions[d].assignedSeat = n}

\* C13: in a single-mode room whose roles are not locked, a
\* TOGGLE_ROLE_LOCK(true) of the admin while fewer than 10 players of the room
\* hold distinct seats is rejected: the admin's connection is sent
\* ADMIN_ERROR, areRolesLocked remains false (no room changes) and no
\* STATE_UPDATE is sent.
C13_SingleModeLockRejected ==
  [][\A s \in SocketIds, r \in DOMAIN rooms :
       (/\ RoleOf(clients, s) = "ADMIN"
        /\ rooms[r].settings.singleMode
        /\ ~rooms[r].areRolesLocked
        /\ Cardinality(SeatsHeld(r)) < 10
        /\ ToggleRoleLock(s, r, TRUE))
       => /\ rooms' = rooms
          /\ ~rooms'[r].areRolesLocked
          /\ \E i \in 1..Len(emitted') :
               emitted'[i].event = "ADMIN_ERROR" /\ emitted'[i].to = s
          /\ \A i \in 1..Len(emitted') : emitted'[i].event # "STATE_UPDATE"]_vars

\* The admin asked to lock the single-mode room while one seat was held: the
\* admin was sent ADMIN_ERROR and the room is not locked.
C13_Witness ==
  /\ lastEvent.type = "TOGGLE_ROLE_LOCK"
  /\ lastEvent.arg.booleanState
  /\ RoleOf(clients, lastEvent.socket) = "ADMIN"
  /\ rooms["A"].settings.singleMode
  /\ ~rooms["A"].areRolesLocked
  /\ Cardinality(SeatsHeld("A")) = 1
  /\ \E i \in 1..Len(emitted) : emitted[i].event = "ADMIN_ERROR"

\* C14: in single mode the PRIVATE_ROLE_REVEAL of the pick for seat t, by a
\* PICK_CARD or by a FORCE_PICK, goes only to connections whose device
\* session has assignedSeat t.
C14_RevealOnlyToSeat ==
  [][(/\ lastEvent'.type \in PickEvents
      /\ SenderRoom \in DOMAIN rooms
      /\ rooms[SenderRoom].settings.singleMode)
     => \A i \in 1..Len(emitted') :
          emitted'[i].event = "PRIVATE_ROLE_REVEAL" =>
            /\ emitted'[i].to \in DOMAIN clients
            /\ AssignedSeatOf(sessions, clients[emitted'[i].to].deviceId)
                 = rooms[SenderRoom].currentTurn]_vars

\* C15: while areRolesLocked of a room is true, no session and no client of
\* that room changes its role or its assignedSeat, and the room is not
\* deleted, whatever the event.
C15_LockFreezesRoles ==
  [][\A r \in DOMAIN rooms :
       rooms[r].areRolesLocked =>
         /\ r \in DOMAIN rooms'
         /\ \A d \in DOMAIN sessions \cap DOMAIN sessions' :
              sessions[d].roomId = r =>
                /\ sessions'[d].role = sessions[d].role
                /\ sessions'[d].assignedSeat = sessions[d].assignedSeat
         /\ \A c \in DOMAIN clients \cap DOMAIN clients' :
              clients[c].roomId = r => clients'[c].role = clients[c].role]_vars

\* C16: a DELETE_ROOM takes effect only when its sender is ADMIN and the room
\* is not role-locked; after it the room does not exist and no connected
\* client record names it as its roomId: the clients that were in it are
\* UNASSIGNED with no room, the streams among them PENDING_STREAM in GLOBAL.
C16_DeleteRoomEvicts ==
  [][lastEvent'.type = "DELETE_ROOM" =>
       LET r == lastEvent'.arg
       IN /\ RoleOf(clients, lastEvent'.socket) = "ADMIN"
          /\ r \in DOMAIN rooms
          /\ ~rooms[r].areRolesLocked
          /\ r \notin DOMAIN rooms'
          /\ \A c \in connected' \cap DOMAIN clients' : clients'[c].roomId # r
          /\ \A c \in DOMAIN clients :
               clients[c].roomId = r =>
                 IF clients[c].role = "STREAM"
                 THEN clients'[c].role = "PENDING_STREAM" /\ clients'[c].roomId = GLOBAL
                 ELSE clients'[c].role = "UNASSIGNED" /\ clients'[c].roomId = Null]_vars

\* An admin-only event received from s.
AdminEventFrom(s) ==
  \/ CreateRoom(s, "A")
  \/ DeleteRoom(s, "A")
  \/ VerifyStream(s, "s3", "A")
  \/ AssignRole(s, "s3", "PLAYER")
  \/ ResetClient(s, "s3")
  \/ \E b \in BOOLEAN : ToggleRoleLock(s, "A", b)
  \/ \E b \in BOOLEAN : ToggleGlobalDebug(s, b)
  \/ \E b \in BOOLEAN : ToggleSingleMode(s, "A", b)
  \/ SpawnPhantoms(s, "A")
  \/ \E n \in SeatNumbers : AssignSeat(s, "dP", n)
  \/ \E old \in Passwords : ChangePassword(s, old, "pw1", "salt1")

\* A draft-control event received from s.
DraftControlFrom(s) ==
  \/ \E rnd \in Draws(1) : StartDraft(s, rnd)
  \/ UnlockTray(s)
  \/ ForcePick(s, 0)
  \/ ResetDraft(s)

\* C17: an admin-only event from a connection whose role is not ADMIN, and a
\* draft-control event (START_DRAFT, UNLOCK_TRAY, FORCE_PICK, RESET_DRAFT)
\* from a connection whose role is neither JUDGE nor ADMIN, leaves the rooms,
\* the sessions, the client records and the credentials as they are.
C17_UnauthorizedIsNoOp ==
  [][\A s \in SeatSockets :
       (\/ RoleOf(clients, s) # "ADMIN" /\ AdminEventFrom(s)
        \/ RoleOf(clients, s) \notin {"JUDGE", "ADMIN"} /\ DraftControlFrom(s))
       => UNCHANGED <<rooms, sessions, clients, adminCredentials>>]_vars

\* The player's connection, in a locked single-mode room with the debug mode
\* on, sent SPAWN_PHANTOMS and was refused.
C17_Witness ==
  /\ lastEvent.type = "SPAWN_PHANTOMS"
  /\ RoleOf(clients, lastEvent.socket) = "PLAYER"
  /\ globalDebugMode
  /\ rooms["A"].areRolesLocked
  /\ \E i \in 1..Len(emitted) : emitted[i].event = "ACK" /\ ~PayloadOf(emitted[i]).success

\* The step is a packet of socket s (the rate limiter counted it).
PacketStepOf(s) == messageCount'[s] = messageCount[s] + 1

\* C18: a handler that changes state runs for a connection only when the
\* event arrived in an ENCRYPTED_MESSAGE whose HMAC verifies under the key
\* the connection established by KEY_EXCHANGE: a packet in plaintext (other
\* than the KEY_EXCHANGE itself), before the key exchange, or with a payload
\* that fails verification changes no state and produces no reply.
C18_OnlyVerifiedPacketsHandled ==
  [][\A s \in SocketIds :
       (/\ PacketStepOf(s)
        /\ lastPacket'.event # "KEY_EXCHANGE"
        /\ lastPacket'.verdict # "decrypted")
       => UNCHANGED state]_vars

\* C19: every event the server emits to a connection, the reply of the key
\* exchange (an acknowledgement) apart, is delivered as an ENCRYPTED_MESSAGE
\* under the connection's key: no application event goes out in plaintext.
C19_EmitsEncrypted ==
  \A i \in 1..Len(emitted) : emitted[i].event # "ACK" => emitted[i].encrypted

FirstStart(sockets) ==
  /\ rooms = EmptyMap
  /\ sessions = EmptyMap
  /\ clients = EmptyMap
  /\ globalDebugMode = FALSE
  /\ connected = {}
  /\ socketDeviceId = [s \in sockets |-> Null]
  /\ joined = [s \in sockets |-> {}]
  /\ emitted = <<>>
  /\ lastEvent = Event("boot", Null, Null)
  /\ clientKeys = EmptyMap
  /\ adminCredentials = NoCredentials
  /\ messageCount = [s \in sockets |-> 0]
  /\ lastPacket = [socket |-> Null, event |-> Null, verdict |-> Null]
  /\ ipConnectionCounts = EmptyMap
  /\ loginAttempts = EmptyMap
  /\ loginChallenges = EmptyMap
  /\ disk = NoFiles
  /\ now = 0
  /\ saving = 0
  /\ rsEngine = TRUE

\* SpecGate: the local socket and six sockets of one remote address connect
\* and disconnect, before and after the password is set up.
GateSockets == SocketIds \cup MoreSocketIds

InitGate == FirstStart(GateSockets)

NextGate ==
  \/ \E s \in GateSockets : Within(Connection(s))
  \/ \E s \in GateSockets : Within(Disconnect(s))
  \/ Within(SetupAdmin("s1", "pw0", "salt0"))

SpecGate == InitGate /\ [][NextGate]_vars

\* The open connections of an address.
OpenConnections(conn, ip) == {s \in conn : IpOf(s) = ip}

\* C21: an address never has more than MAX_CONNECTIONS_PER_IP admitted
\* connections at a time; a connection attempt from an address that has that
\* many open is refused; after one of them disconnected, an attempt from the
\* address is admitted.
C21_ConnectionLimit ==
  /\ [](\A ip \in {Loopback, Remote} :
          Cardinality(OpenConnections(connected, ip)) <= MAX_CONNECTIONS_PER_IP)
  /\ [][\A s \in GateSockets :
          LET open == Cardinality(OpenConnections(connected, IpOf(s)))
          IN Connection(s) =>
               /\ open = MAX_CONNECTIONS_PER_IP => connected' = connected
               /\ ( /\ open = MAX_CONNECTIONS_PER_IP - 1
                    /\ lastEvent.type = "disconnect"
                    /\ IpOf(lastEvent.socket) = IpOf(s) ) => s \in connected']_vars

\* A sixth connection of the remote address was refused while five were open.
C21_Witness ==
  /\ lastEvent.type = "connection refused"
  /\ Cardinality(OpenConnections(connected, Remote)) = MAX_CONNECTIONS_PER_IP

\* ------------------------------------------------------ setup and login
\* The longest time of a behaviour, and the step of the clock, in minutes.
MaxTime == 15
ClockStep == 5

\* The clock moves on.
Tick ==
  /\ now + ClockStep <= MaxTime
  /\ now' = now + ClockStep
  /\ UNCHANGED <<state, wire, saving, rsEngine>>

Nonces == {"n1", "n2"}

\* The passwords a client tries, and the responses it sends: the HMAC of the
\* hash of a password under a nonce, whole or cut short.
TriedPasswords == {"pw0", "bad"}

Responses ==
  LET whole == {hmacSha256(n, pbkdf2(pw, "salt0")) : n \in Nonces, pw \in TriedPasswords}
  IN whole \cup {Truncated(hmacSha256("n1", pbkdf2("pw0", "salt0")), 3)}

\* SpecLogin: the first start; the local socket and two sockets of one
\* remote address set up the password, ask for challenges, log in and change
\* the password, while the clock moves on.
LoginSockets == {"s1", "s2", "s3"}

InitLogin == FirstStart(SocketIds)

NextLogin ==
  \/ \E s \in LoginSockets : Within(Connection(s))
  \/ \E s \in {"s2"} : Within(Disconnect(s))
  \/ \E s \in {"s1", "s2"} : Within(SetupAdmin(s, "pw0", "salt0"))
  \/ \E s \in {"s2", "s3"}, n \in Nonces : Within(RequestLoginChallenge(s, n))
  \/ \E s \in {"s2", "s3"}, r \in Responses : Within(AdminLogin(s, r))
  \/ \E s \in {"s2", "s3"}, old \in Passwords : Within(ChangePassword(s, old, "pw1", "salt0"))
  \/ Tick

SpecLogin == InitLogin /\ [][NextLogin]_vars

\* The answers (acknowledgements) among the messages of a step.
Answers(msgs) == {PayloadOf(msgs[i]) : i \in {j \in 1..Len(msgs) : msgs[j].event = "ACK"}}

\* A step of ADMIN_LOGIN, of REQUEST_LOGIN_CHALLENGE, sent by s.
LoginStepOf(s) ==
  /\ lastEvent'.type = "ADMIN_LOGIN"
  /\ lastEvent'.socket = s
  /\ AdminLogin(s, lastEvent'.arg)

ChallengeStepOf(s) ==
  /\ lastEvent'.type = "REQUEST_LOGIN_CHALLENGE"
  /\ lastEvent'.socket = s
  /\ \E n \in Nonces : RequestLoginChallenge(s, n)

\* C22: the failures of an address are counted across its connections: an
\* ADMIN_LOGIN answered with a failure outside a lockout adds one, and only a
\* successful login clears the count; the failure that takes the count to 5
\* or more starts a lockout of 10 minutes, and while the lockout lasts every
\* ADMIN_LOGIN and REQUEST_LOGIN_CHALLENGE of the address is answered with a
\* failure, whatever the response, and grants nothing.
C22_LockoutAfterFiveFailures ==
  [][\A s \in LoginSockets :
       LET ip == IpOf(s)
           before == AttemptData(loginAttempts, ip)
           after == AttemptData(loginAttempts', ip)
           locked == now < before.lockoutUntil
       IN /\ (LoginStepOf(s) /\ ~locked /\ Answers(emitted') # {}
                /\ \A a \in Answers(emitted') : ~a.success) =>
               /\ after.count = before.count + 1
               /\ after.count >= MAX_LOGIN_FAILURES => after.lockoutUntil = now + LOCKOUT_MINUTES
          /\ (LoginStepOf(s) /\ \E a \in Answers(emitted') : a.success) =>
               ip \notin DOMAIN loginAttempts'
          /\ ((LoginStepOf(s) \/ ChallengeStepOf(s)) /\ locked) =>
               /\ Answers(emitted') # {}
               /\ \A a \in Answers(emitted') : ~a.success
               /\ UNCHANGED <<clients, sessions, loginAttempts, loginChallenges>>
          /\ after # before =>
               \E c \in LoginSockets : IpOf(c) = ip /\ LoginStepOf(c) /\ ~locked]_vars

\* During a lockout the right response to the outstanding challenge of a
\* connection was sent by it and declined.
C22_Witness ==
  /\ lastEvent.type = "ADMIN_LOGIN"
  /\ now < AttemptData(loginAttempts, Remote).lockoutUntil
  /\ lastEvent.socket \in DOMAIN loginChallenges
  /\ lastEvent.arg = hmacSha256(loginChallenges[lastEvent.socket], adminCredentials.hash)
  /\ RoleOf(clients, lastEvent.socket) # "ADMIN"

\* C23: every ADMIN_LOGIN outside a lockout whose response does not verify
\* (a wrong HMAC, a response of another length or not hex, no outstanding
\* challenge) adds one to the failure count of the address and is answered
\* with a failure.
C23_EveryBadResponseCounted ==
  [][\A s \in LoginSockets :
       LET ip == IpOf(s)
           nonce == ActiveNonce(loginChallenges, s)
           verifies == /\ adminCredentials # NoCredentials
                       /\ nonce # Null
                       /\ lastEvent'.arg = hmacSha256(nonce, adminCredentials.hash)
       IN (LoginStepOf(s) /\ ~(now < AttemptData(loginAttempts, ip).lockoutUntil) /\ ~verifies) =>
            /\ AttemptData(loginAttempts', ip).count = AttemptData(loginAttempts, ip).count + 1
            /\ Answers(emitted') # {}
            /\ \A a \in Answers(emitted') : ~a.success]_vars

\* C24: ADMIN_LOGIN grants the ADMIN role only for the HMAC of the stored
\* hash under the nonce last issued to the connection; every ADMIN_LOGIN
\* leaves the connection without a nonce; and the response a connection
\* sends again, no other event having been handled since it sent it, is
\* declined.
C24_NonceConsumedByEveryAttempt ==
  [][\A s \in LoginSockets :
       LoginStepOf(s) =>
         /\ (RoleOf(clients', s) = "ADMIN" /\ RoleOf(clients, s) # "ADMIN") =>
              /\ s \in DOMAIN loginChallenges
              /\ lastEvent'.arg = hmacSha256(loginChallenges[s], adminCredentials.hash)
         /\ s \notin DOMAIN loginChallenges'
         /\ lastEvent = lastEvent' => \A a \in Answers(emitted') : ~a.success]_vars

\* C25: while there is no password only local connections are open; the
\* stored credentials change only by a SETUP_ADMIN of a local connection
\* while there are none, and afterwards only by a CHANGE_PASSWORD that a
\* connection with the ADMIN role sends with the current password.
C25_CredentialsOnlyBySetupAndChange ==
  /\ [](adminCredentials = NoCredentials => \A s \in connected : IpOf(s) = Loopback)
  /\ [][adminCredentials' # adminCredentials =>
          \/ /\ adminCredentials = NoCredentials
             /\ \E s \in LoginSockets :
                  /\ IpOf(s) = Loopback
                  /\ lastEvent' = Event("SETUP_ADMIN", s, Null)
                  /\ SetupAdmin(s, "pw0", "salt0")
          \/ /\ adminCredentials # NoCredentials
             /\ \E s \in LoginSockets, old \in Passwords :
                  /\ RoleOf(clients, s) = "ADMIN"
                  /\ pbkdf2(old, adminCredentials.salt) = adminCredentials.hash
                  /\ ChangePassword(s, old, "pw1", "salt0")]_vars

\* The password that was set up has been changed.
C25_Witness ==
  /\ lastEvent.type = "CHANGE_PASSWORD"
  /\ adminCredentials = hashPassword("pw1", "salt0")

\* ------------------------------------------------------- stream requests
\* SpecStream: the admin's socket and another socket identify with a token,
\* with none and with a short one, and ask for stream access with the same;
\* both send the events of a table.
SentTokens(s) == {TokenOf(s), Null, "d5"}

NextStream ==
  \/ \E s \in {"s1", "s2"} : Within(Connection(s))
  \/ \E s \in {"s1", "s2"} : Within(Disconnect(s))
  \/ \E s \in {"s1", "s2"} : \E d \in SentTokens(s) : Within(Identify(s, d))
  \/ \E d \in {TokenOf("s2"), Undefined, "d5"} : Within(RequestStreamAccess("s2", d, "OBS"))
  \/ Within(VerifyStream("s1", "s2", "A"))
  \/ Within(DeleteRoom("s1", "A"))
  \/ Table({"s1", "s2"}, {0}, Draws(1), {0})

SpecStream == Init /\ [][NextStream]_vars

\* C26: an IDENTIFY without a token or with one that is not 64 characters
\* long is answered with a new token and leaves the sessions and the client
\* records as they are; no event creates or changes a session under a key
\* that is not a well-formed token.
C26_SessionsOnlyForWellFormedTokens ==
  [][/\ \A s \in SocketIds : \A d \in SentTokens(s) :
          (Identify(s, d) /\ ~(d # Null /\ TokenLength(d) = 64)) =>
             /\ UNCHANGED <<sessions, clients>>
             /\ \E i \in 1..Len(emitted') : emitted'[i].event = "ASSIGN_NEW_DEVICE_ID"
     /\ \A d \in DOMAIN sessions' :
          (d \notin DOMAIN sessions \/ sessions'[d] # sessions[d]) =>
             (d \notin {Null, Undefined} /\ TokenLength(d) = 64)]_vars

\* C27: an IDENTIFY with the token of a stored session that has a room, on a
\* connection without a client record, gives the connection the stored role
\* and room when the room exists (or is GLOBAL) or the role is ADMIN, and
\* tells it the role; when the room is deleted and the role is not ADMIN it
\* sets the session to UNASSIGNED without a room, tells the connection
\* UNASSIGNED and creates no client record.
C27_ReconnectRestoresSession ==
  [][\A s \in SocketIds :
       LET d == TokenOf(s)
       IN (Identify(s, d) /\ s \notin DOMAIN clients
             /\ d \in DOMAIN sessions /\ sessions[d].roomId # Null) =>
            IF \/ sessions[d].roomId \in DOMAIN rooms \cup {GLOBAL}
               \/ sessions[d].role = "ADMIN"
            THEN /\ s \in DOMAIN clients'
                 /\ clients'[s].deviceId = d
                 /\ clients'[s].role = sessions[d].role
                 /\ clients'[s].roomId = sessions[d].roomId
                 /\ clients'[s].name = sessions[d].name
                 /\ sessions' = sessions
                 /\ \E i \in 1..Len(emitted') :
                      /\ emitted'[i].to = s
                      /\ emitted'[i].event = "ROLE_ASSIGNED"
                      /\ PayloadOf(emitted'[i]) = sessions[d].role
            ELSE /\ sessions'[d].role = "UNASSIGNED"
                 /\ sessions'[d].roomId = Null
                 /\ s \notin DOMAIN clients'
                 /\ \E i \in 1..Len(emitted') :
                      /\ emitted'[i].to = s
                      /\ emitted'[i].event = "ROLE_ASSIGNED"
                      /\ PayloadOf(emitted'[i]) = "UNASSIGNED"]_vars

\* The judge's device identified again after its room was deleted: it was
\* told UNASSIGNED and has no client record.
C27_Witness ==
  /\ lastEvent = Event("IDENTIFY", "s2", "dJ")
  /\ "A" \notin DOMAIN rooms
  /\ "s2" \notin DOMAIN clients
  /\ sessions["dJ"].role = "UNASSIGNED"
  /\ \E i \in 1..Len(emitted) : emitted[i].event = "ROLE_ASSIGNED"

\* ------------------------------------------------------------ the vault
\* The storage directory without the shard_i.dat of a set of shards.
Without(dsk, lost) == [dsk EXCEPT !.dat = [i \in DOMAIN dsk.dat \ lost |-> dsk.dat[i]]]

\* The process is running.
Alive == saving = 0

\* A handler during whose saveState the process ends, before file operation
\* p of it.
CrashIn(H, p) ==
  /\ Alive
  /\ saving' = p
  /\ UNCHANGED <<wire, now, rsEngine>>
  /\ H
  /\ disk' # disk \/ p = 1

\* The process starts again (having ended, if it was running), some shards
\* having been lost meanwhile: the state is the boot state with what
\* loadState installs.
Restart(lost) ==
  LET loaded == loadState(Without(disk, lost), rsEngine)
  IN /\ adminCredentials' = loaded.data.admin
     /\ rooms' = loaded.data.rooms
     /\ sessions' = loaded.data.sessions
     /\ globalDebugMode' = loaded.data.globalDebugMode
     /\ disk' = loaded.disk
     /\ clients' = EmptyMap
     /\ connected' = {}
     /\ socketDeviceId' = [s \in DOMAIN socketDeviceId |-> Null]
     /\ joined' = [s \in DOMAIN joined |-> {}]
     /\ emitted' = <<>>
     /\ clientKeys' = EmptyMap
     /\ ipConnectionCounts' = EmptyMap
     /\ loginAttempts' = EmptyMap
     /\ loginChallenges' = EmptyMap
     /\ messageCount' = [s \in DOMAIN messageCount |-> 0]
     /\ lastPacket' = [socket |-> Null, event |-> Null, verdict |-> Null]
     /\ lastEvent' = Event("boot", Null, loaded.outcome)
     /\ saving' = 0
     /\ UNCHANGED <<now, rsEngine>>

\* SpecVault: a server that loaded the snapshot of a table; the admin
\* connects, deletes and creates the room, locks the roles and assigns a
\* seat; the process ends inside a saveState or between two events,
\* shards get lost, and it starts again.
InitVault ==
  /\ rooms = ("A" :> getInitialGameState)
  /\ sessions = ("dA" :> Session("Tournament Admin", "ADMIN", GLOBAL, 0, FALSE))
                @@ ("dJ" :> Session("Ann", "JUDGE", "A", 0, FALSE))
  /\ clients = EmptyMap
  /\ globalDebugMode = FALSE
  /\ connected = {}
  /\ socketDeviceId = [s \in SocketIds |-> Null]
  /\ joined = [s \in SocketIds |-> {}]
  /\ emitted = <<>>
  /\ lastEvent = Event("boot", Null, "restored")
  /\ clientKeys = EmptyMap
  /\ adminCredentials = hashPassword("pw0", "salt0")
  /\ messageCount = [s \in SocketIds |-> 0]
  /\ lastPacket = [socket |-> Null, event |-> Null, verdict |-> Null]
  /\ ipConnectionCounts = EmptyMap
  /\ loginAttempts = EmptyMap
  /\ loginChallenges = EmptyMap
  /\ disk = SavedDisk(StoredData(adminCredentials, rooms, sessions, globalDebugMode))
  /\ now = 0
  /\ saving = 0
  /\ rsEngine = TRUE

CrashPoints == 1..SaveOperations

\* The sets of shards that get lost before a start.
LostShards == {{}, {0}, {1, 5}, {0, 1, 2}}

NextVault ==
  \/ Alive /\ Within(Connection("s1"))
  \/ Alive /\ Within(Identify("s1", TokenOf("s1")))
  \/ Alive /\ Within(DeleteRoom("s1", "A"))
  \/ Alive /\ Within(CreateRoom("s1", "A"))
  \/ Alive /\ \E b \in BOOLEAN : Within(ToggleRoleLock("s1", "A", b))
  \/ Alive /\ Within(AssignSeat("s1", "dJ", 2))
  \/ \E p \in CrashPoints : CrashIn(DeleteRoom("s1", "A"), p)
  \/ \E p \in CrashPoints : CrashIn(AssignSeat("s1", "dJ", 2), p)
  \/ \E lost \in LostShards : Restart(lost)

SpecVault == InitVault /\ [][NextVault]_vars

\* The data of the state after a step, as saveState collects them.
MemoryAfter == StoredData(adminCredentials', rooms', sessions', globalDebugMode')

\* C28: after a saveState that ran to its end, a loadState restores the
\* credentials, rooms and sessions that were saved, with all shards and with
\* any one or two of them missing; with three or more missing, and at least
\* one present, it reports the loss and installs nothing.
C28_SaveThenLoad ==
  [][(saving' = 0 /\ disk' # disk /\ lastEvent'.type # "boot") =>
       \A lost \in SUBSET ShardIndexes :
         LET loaded == loadState(Without(disk', lost), rsEngine)
         IN IF Cardinality(lost) <= PARITY_SHARDS
            THEN /\ loaded.outcome = "restored"
                 /\ loaded.data = MemoryAfter
            ELSE lost # ShardIndexes =>
                 /\ loaded.outcome = "unrecoverable"
                 /\ loaded.data = BootData]_vars

\* The process started with shards missing and has the saved table, seat
\* and credentials again (the directory holds what the start wrote).
C28_Witness ==
  /\ lastEvent = Event("boot", Null, "restored")
  /\ "A" \in DOMAIN rooms
  /\ sessions["dJ"].assignedSeat = 2
  /\ adminCredentials = hashPassword("pw0", "salt0")
  /\ disk = SavedDisk(BootData)

\* C29: when the process ends inside a saveState, the shards it leaves are
\* loaded by the next loadState as the whole snapshot of before the save or
\* as the whole snapshot being saved.
C29_CrashLeavesOldOrNew ==
  [][(saving' # 0 /\ loadState(disk, rsEngine).outcome = "restored") =>
       LET loaded == loadState(disk', rsEngine)
       IN /\ loaded.outcome = "restored"
          /\ \/ loaded.data = loadState(disk, rsEngine).data
             \/ loaded.data = MemoryAfter]_vars

\* The events after which the snapshot is said to be current.
MutatingEvents ==
  {"CREATE_ROOM", "DELETE_ROOM", "JOIN_ROOM", "ASSIGN_ROLE", "RESET_CLIENT", "VERIFY_STREAM",
   "TOGGLE_ROLE_LOCK", "START_DRAFT", "UNLOCK_TRAY", "PICK_CARD", "FORCE_PICK",
   "MEMORIZED_ROLE", "RESET_DRAFT", "ADMIN_LOGIN"}

\* C30: after a handled event of MutatingEvents that changed the rooms or
\* the sessions, the snapshot in the storage directory is that of the rooms
\* and sessions in memory.
C30_SnapshotFollowsMemory ==
  [][(saving' = 0 /\ lastEvent'.type \in MutatingEvents
        /\ (rooms' # rooms \/ sessions' # sessions)) =>
       LET loaded == loadState(disk', rsEngine)
       IN /\ loaded.outcome = "restored"
          /\ loaded.data.rooms = rooms'
          /\ loaded.data.sessions = sessions']_vars

\* ------------------------------------------------------- two tables (C31)
\* SpecRooms: a server with the tables A and B; the admin locks and unlocks
\* the roles of either table, a player's connection joins one and then the
\* other, a stream's connection is verified for one and then the other.
TableIds == {"A", "B"}

InitRooms ==
  /\ rooms = ("A" :> getInitialGameState) @@ ("B" :> getInitialGameState)
  /\ sessions = ("dA" :> Session("Tournament Admin", "ADMIN", GLOBAL, 0, FALSE))
  /\ clients = EmptyMap
  /\ globalDebugMode = FALSE
  /\ connected = {}
  /\ socketDeviceId = [s \in SocketIds |-> Null]
  /\ joined = [s \in SocketIds |-> {}]
  /\ emitted = <<>>
  /\ lastEvent = Event("boot", Null, Null)
  /\ clientKeys = EmptyMap
  /\ adminCredentials = hashPassword("pw0", "salt0")
  /\ messageCount = [s \in SocketIds |-> 0]
  /\ lastPacket = [socket |-> Null, event |-> Null, verdict |-> Null]
  /\ ipConnectionCounts = EmptyMap
  /\ loginAttempts = EmptyMap
  /\ loginChallenges = EmptyMap
  /\ disk = NoFiles
  /\ now = 0
  /\ saving = 0
  /\ rsEngine = FALSE

NextRooms ==
  \/ \E s \in SocketIds : Within(Connection(s))
  \/ \E s \in {"s2", "s3"} : Within(Disconnect(s))
  \/ \E s \in {"s1", "s2"} : Within(Identify(s, TokenOf(s)))
  \/ \E r \in TableIds : Within(JoinRoom("s2", "Ann", r))
  \/ Within(RequestStreamAccess("s3", "dP", "OBS"))
  \/ \E r \in TableIds : Within(VerifyStream("s1", "s3", r))
  \/ \E r \in TableIds, b \in BOOLEAN : Within(ToggleRoleLock("s1", r, b))

SpecRooms == InitRooms /\ [][NextRooms]_vars

\* The sockets that the last event sent a STATE_UPDATE to.
StateUpdateReceivers ==
  {emitted[i].to : i \in {j \in 1..Len(emitted) : emitted[j].event = "STATE_UPDATE"}}

\* C31: the STATE_UPDATE that a TOGGLE_ROLE_LOCK of a table broadcasts goes
\* only to connections whose client record names that table as its roomId;
\* a connection that has moved to the other table by JOIN_ROOM or
\* VERIFY_STREAM is not among the receivers.
C31_BroadcastOnlyToCurrentRoom ==
  lastEvent.type = "TOGGLE_ROLE_LOCK" =>
    \A s \in StateUpdateReceivers : RoomOf(clients, s) = lastEvent.arg.roomId

\* A draft event received from s.
DraftEventFrom(s) ==
  \/ DraftControlFrom(s)
  \/ PickCard(s, 0)

\* C32: a START_DRAFT, UNLOCK_TRAY, PICK_CARD, FORCE_PICK or RESET_DRAFT of a
\* connection whose recorded roomId names no existing room (a stream parked
\* in GLOBAL, the admin in GLOBAL, a deleted room) changes no room, session
\* or client record and raises no error in the handler.
C32_DraftEventWithoutRoomRejected ==
  [][\A s \in {"s1", "s2"} :
       (RoomOf(clients, s) \notin DOMAIN rooms /\ DraftEventFrom(s)) =>
          /\ UNCHANGED <<rooms, sessions, clients>>
          /\ lastEvent'.type # "uncaughtException"]_vars

\* The PLAYER sessions of a room.
PlayerSessions(r) ==
  {d \in DOMAIN sessions : sessions[d].roomId = r /\ sessions[d].role = "PLAYER"}

\* C33: in a room with settings.singleMode and areRolesLocked both true each
\* seat 1..10 is held by exactly one PLAYER session of the room, and no
\* PLAYER session of the room holds a seat outside 1..10.
C33_LockedSingleModeFullySeated ==
  \A r \in DOMAIN rooms :
    (rooms[r].settings.singleMode /\ rooms[r].areRolesLocked) =>
      /\ \A n \in 1..10 :
           Cardinality({d \in PlayerSessions(r) : sessions[d].assignedSeat = n}) = 1
      /\ \A d \in PlayerSessions(r) : sessions[d].assignedSeat \in 0..10

\* ------------------------------------------- snapshots of an older schema
\* The members of a GameState that a snapshot of schema 1 may lack.
MissingMembers == {{}, {"settings"}, {"settings", "clientCounts", "areRolesLocked"}}

\* A stored GameState without some members.
OlderState(gs, missing) == [k \in DOMAIN gs \ missing |-> gs[k]]

\* The snapshot of a table as a program of schema 1 left it.
OlderSnapshot(missing) ==
  [schemaVersion |-> 1,
   admin |-> hashPassword("pw0", "salt0"),
   rooms |-> ("A" :> OlderState(getInitialGameState, missing)),
   sessions |-> ("dA" :> Session("Tournament Admin", "ADMIN", GLOBAL, 0, FALSE))
                @@ ("dJ" :> Session("Ann", "JUDGE", "A", 0, FALSE)),
   globalDebugMode |-> FALSE]

\* The same without a schemaVersion member.
Unversioned(snapshot) == [k \in DOMAIN snapshot \ {"schemaVersion"} |-> snapshot[k]]

\* The snapshots the storage directory may hold when the program starts.
StoredSnapshots ==
  {OlderSnapshot(missing) : missing \in MissingMembers}
  \cup {Unversioned(OlderSnapshot({"settings"}))}
  \cup {upgradeDataSchema(OlderSnapshot({}))}

\* SpecUpgrade: a server that has started on a storage directory holding one
\* of these snapshots; the admin and the judge connect, the admin locks the
\* roles, sets the single mode and assigns a seat; the process starts
\* again, with all shards or with one lost.
InitUpgrade ==
  \E snapshot \in StoredSnapshots :
    LET loaded == loadState(SavedDisk(snapshot), TRUE)
    IN /\ adminCredentials = loaded.data.admin
       /\ rooms = loaded.data.rooms
       /\ sessions = loaded.data.sessions
       /\ globalDebugMode = loaded.data.globalDebugMode
       /\ disk = loaded.disk
       /\ lastEvent = Event("boot", Null, loaded.outcome)
       /\ clients = EmptyMap
       /\ connected = {}
       /\ socketDeviceId = [s \in SocketIds |-> Null]
       /\ joined = [s \in SocketIds |-> {}]
       /\ emitted = <<>>
       /\ clientKeys = EmptyMap
       /\ messageCount = [s \in SocketIds |-> 0]
       /\ lastPacket = [socket |-> Null, event |-> Null, verdict |-> Null]
       /\ ipConnectionCounts = EmptyMap
       /\ loginAttempts = EmptyMap
       /\ loginChallenges = EmptyMap
       /\ now = 0
       /\ saving = 0
       /\ rsEngine = TRUE

NextUpgrade ==
  \/ \E s \in {"s1", "s2"} : Within(Connection(s))
  \/ \E s \in {"s1", "s2"} : Within(Identify(s, TokenOf(s)))
  \/ \E b \in BOOLEAN : Within(ToggleRoleLock("s1", "A", b))
  \/ \E b \in BOOLEAN : Within(ToggleSingleMode("s1", "A", b))
  \/ Within(AssignSeat("s1", "dJ", 2))
  \/ \E lost \in {{}, {0}} : Restart(lost)

SpecUpgrade == InitUpgrade /\ [][NextUpgrade]_vars

\* The snapshot that the shards of the storage directory decode to.
StoredSnapshot == decryptStorage(disk.dat[0].of)

\* C34: when loadState has restored the state from the shards, every room
\* has every member of a current GameState, and the storage directory holds
\* a snapshot of the current schema version, so that the next loadState
\* has nothing to upgrade.
C34_UpgradedSnapshotWrittenBack ==
  (lastEvent.type = "boot" /\ lastEvent.arg = "restored") =>
    /\ \A r \in DOMAIN rooms : DOMAIN rooms[r] = DOMAIN getInitialGameState
    /\ SchemaVersionOf(StoredSnapshot) = DATA_SCHEMA_VERSION

\* C35: when loadState has restored the state, with or without a
\* reconstruction of missing shards, the storage directory it leaves decodes
\* to the state it installed: a loadState of that directory restores the
\* credentials, rooms, sessions and debug mode that are in memory.
C35_RecoveryKeepsSnapshot ==
  (lastEvent.type = "boot" /\ lastEvent.arg = "restored") =>
    LET again == loadState(disk, rsEngine)
    IN /\ again.outcome = "restored"
       /\ again.data = StoredData(adminCredentials, rooms, sessions, globalDebugMode)

\* C36: a room whose status is IN_PROGRESS has areRolesLocked true; and an
\* ASSIGN_ROLE of a client of such a room, an ASSIGN_SEAT of a session of
\* such a room and a DELETE_ROOM of such a room, from any connection, leave
\* the rooms, the sessions and the client records as they are.
C36_RunningDraftIsLocked ==
  /\ [](\A r \in DOMAIN rooms : rooms[r].status = "IN_PROGRESS" => rooms[r].areRolesLocked)
  /\ [][\A r \in DOMAIN rooms : rooms[r].status = "IN_PROGRESS" =>
          \A s \in SeatSockets :
            (\/ RoomOf(clients, "s3") = r /\ AssignRole(s, "s3", "PLAYER")
             \/ /\ "dP" \in DOMAIN sessions
                /\ sessions["dP"].roomId = r
                /\ \E n \in SeatNumbers : AssignSeat(s, "dP", n)
             \/ DeleteRoom(s, r))
            => UNCHANGED <<rooms, sessions, clients>>]_vars

\* A draft is running, its tray unlocked by the last event, with the admin
\* connected and the player in the room.
C36_Witness ==
  /\ lastEvent.type = "UNLOCK_TRAY"
  /\ rooms["A"].status = "IN_PROGRESS"
  /\ rooms["A"].areRolesLocked
  /\ RoleOf(clients, "s1") = "ADMIN"
  /\ RoomOf(clients, "s3") = "A"

\* C37: a PICK_CARD of a connection whose role is not PLAYER, JUDGE or ADMIN
\* (an UNASSIGNED, a STREAM or a PENDING_STREAM connection, or one without
\* a client record) reveals no slot, records no result and does not advance
\* the turn: it leaves every room as it is.
C37_PickOnlyByPlayers ==
  [][\A s \in SeatSockets :
       (RoleOf(clients, s) \notin {"PLAYER", "JUDGE", "ADMIN"} /\ PickCard(s, 0))
       => UNCHANGED rooms]_vars

\* C38: the admission counter of each address equals the number of its open
\* connections, the entry being absent when there are none; and a connection
\* attempt of an address with fewer than MAX_CONNECTIONS_PER_IP open
\* connections is not refused.
C38_CounterEqualsOpenConnections ==
  /\ [](\A ip \in {Loopback, Remote} :
          LET open == Cardinality(OpenConnections(connected, ip))
          IN /\ ConnectionCount(ipConnectionCounts, ip) = open
             /\ open = 0 => ip \notin DOMAIN ipConnectionCounts)
  /\ [][\A s \in GateSockets :
          (/\ Cardinality(OpenConnections(connected, IpOf(s))) < MAX_CONNECTIONS_PER_IP
           /\ Connection(s))
          => lastEvent'.type # "connection refused"]_vars

\* ------------------------------------------------- a draft runs to its end
\* SpecJudge: the judge and a player of a locked table.  The judge connects,
\* identifies and stays; it starts a draft when none is running, unlocks the
\* tray, forces picks and confirms the reveals.  The player comes and goes,
\* picks and confirms.  There is no RESET_DRAFT.
JudgeEvents ==
  \/ Within(UnlockTray("s2"))
  \/ Within(ForcePick("s2", 0))
  \/ Within(MemorizedRole("s2"))

NextJudge ==
  \/ \E s \in {"s2", "s3"} : Within(Connection(s))
  \/ \E s \in {"s2", "s3"} : Within(Identify(s, TokenOf(s)))
  \/ Within(Disconnect("s3"))
  \/ \E rnd \in Draws(1) : ~DraftRunning(rooms["A"]) /\ Within(StartDraft("s2", rnd))
  \/ JudgeEvents
  \/ \E i \in {0, 10} : Within(PickCard("s3", i))
  \/ Within(MemorizedRole("s3"))

SpecJudge == InitDraft /\ [][NextJudge]_vars

\* The same, each of the judge's three events being handled when it stays
\* possible.
FairJudge ==
  /\ WF_vars(Within(UnlockTray("s2")))
  /\ WF_vars(Within(ForcePick("s2", 0)))
  /\ WF_vars(Within(MemorizedRole("s2")))

SpecJudgeFair == SpecJudge /\ FairJudge

\* C39: a draft that is IN_PROGRESS while the judge's connection holds the
\* JUDGE role of the table eventually is COMPLETED.
C39_DraftCompletes ==
  (rooms["A"].status = "IN_PROGRESS" /\ RoleOf(clients, "s2") = "JUDGE")
    ~> (rooms["A"].status = "COMPLETED")

\* A draft was completed by a forced pick of the judge.
C39_Witness ==
  /\ lastEvent.type = "FORCE_PICK"
  /\ lastEvent.socket = "s2"
  /\ rooms["A"].status = "COMPLETED"
  /\ Len(rooms["A"].revealedSlots) = 10

\* C40: an ADMIN_LOGIN that fails after the lockout of its address has
\* expired is answered with the plain invalid-password result and starts no
\* new lockout: a lockout needs five failures since the last one expired.
C40_FailureAfterLockoutIsPlain ==
  [][\A s \in LoginSockets :
       LET ip == IpOf(s)
           before == AttemptData(loginAttempts, ip)
           after == AttemptData(loginAttempts', ip)
           expired == before.lockoutUntil > 0 /\ ~(now < before.lockoutUntil)
       IN (LoginStepOf(s) /\ expired /\ Answers(emitted') # {}
             /\ \A a \in Answers(emitted') : ~a.success) =>
            /\ \A a \in Answers(emitted') : a.message = "Invalid Admin Password"
            /\ ~(now < after.lockoutUntil)]_vars

====
